---- MODULE Spec2Model ----
(***************************************************************************)
(* A model of jobcalc: the pipe-bend and pipe-straight drawing models, the *)
(* flange catalogue, the auto-scale solver and the draw protocol.          *)
(*                                                                         *)
(* Numbers.  Python's numbers are modelled by three kinds of value:        *)
(*   - integers of any size: little-endian sequences of limbs in base 2^15 *)
(*     ("Nat" below), because the products exceed the checker's integers;  *)
(*   - IEEE-754 doubles [m, e] (value m * 2^e, m of 53 bits), used for the *)
(*     angles in radians, whose quotient the code truncates with int();    *)
(*   - exact rationals [neg, n, d] for every length, scale and coordinate: *)
(*     the rounding of the floating-point length arithmetic is left out.   *)
(* math.cos and math.sin are a table on the quarter-degree grid.           *)
(*                                                                         *)
(* Style.  A value that is used more than once is the parameter of an      *)
(* operator rather than a LET definition, and the limbs of a number are    *)
(* worked on side by side rather than by recursion: both keep the          *)
(* evaluation of the arithmetic shallow.                                   *)
(***************************************************************************)
EXTENDS Integers, Sequences, FiniteSets, Bags, TLC


----------------------------------------------------------------------------
(* Unbounded naturals: <<>> is 0, limbs are in 0..32767, no leading zero.  *)

\* a without its z top limbs
TrimTo(a, z) == SubSeq(a, 1, Len(a) - z)

\* the limbs of a without its leading zeros
Trim(a) ==
    IF \A i \in 1..Len(a) : a[i] = 0 THEN <<>>
    ELSE TrimTo(a, CHOOSE z \in 0..(Len(a) - 1) :
                      /\ a[Len(a) - z] # 0
                      /\ \A k \in 0..(z - 1) : a[Len(a) - k] = 0)

Limb(a, i) == IF 1 <= i /\ i <= Len(a) THEN a[i] ELSE 0

\* a whole number 0 <= n < 2^31 as a natural, and back
NatOf(n) == Trim(<<n % 32768, (n \div 32768) % 32768, n \div 1073741824>>)

IntOf(a) == Limb(a, 1) + 32768 * Limb(a, 2) + 1073741824 * Limb(a, 3)

\* a + b: limb i takes a carry when a limb below it overflows and every
\* limb between them is full
NAdd(a, b) ==
    LET n    == IF Len(a) > Len(b) THEN Len(a) ELSE Len(b)
        s(i) == Limb(a, i) + Limb(b, i)
        c(i) == /\ i > 1
                /\ \/ s(i - 1) >= 32768
                   \/ /\ s(i - 1) = 32767
                      /\ \E j \in 1..(i - 2) :
                            /\ s(j) >= 32768
                            /\ \A k \in (j + 1)..(i - 2) : s(k) = 32767
    IN  Trim([i \in 1..(n + 1) |-> (s(i) + (IF c(i) THEN 1 ELSE 0)) % 32768])

\* a - b, for a >= b: limb i lends when a limb below it is short and every
\* limb between them is zero
NSub(a, b) ==
    LET d(i)  == a[i] - Limb(b, i)
        br(i) == /\ i > 1
                 /\ \/ d(i - 1) < 0
                    \/ /\ d(i - 1) = 0
                       /\ \E j \in 1..(i - 2) :
                             /\ d(j) < 0
                             /\ \A k \in (j + 1)..(i - 2) : d(k) = 0
    IN  Trim([i \in 1..Len(a) |->
                 (d(i) - (IF br(i) THEN 1 ELSE 0) + 32768) % 32768])

\* a and b, as long as each other, differ at limb i and at no limb above it
NCmpAt(a, b, i) == IF a[i] < b[i] THEN -1 ELSE 1

\* -1, 0 or 1 as a < b, a = b, a > b
NCmp(a, b) ==
    IF Len(a) # Len(b) THEN (IF Len(a) < Len(b) THEN -1 ELSE 1)
    ELSE IF a = b THEN 0
    ELSE NCmpAt(a, b, Len(a) - (CHOOSE z \in 0..(Len(a) - 1) :
                                   /\ a[Len(a) - z] # b[Len(a) - z]
                                   /\ \A k \in 0..(z - 1) :
                                         a[Len(a) - k] = b[Len(a) - k]))

\* a * k, for 0 <= k < 2^15
NMulSmall(a, k) ==
    NAdd([i \in 1..Len(a) |-> (a[i] * k) % 32768],
         [i \in 1..(Len(a) + 1) |-> (Limb(a, i - 1) * k) \div 32768])

\* the sum of f over the set S of whole numbers, f >= 0
Sum(f, S) == BagCardinality([i \in S |-> f[i] + 1]) - Cardinality(S)

\* the rows i of a whose product with a limb of b falls in column k
Rows(a, b, k) ==
    (IF k + 1 - Len(b) > 1 THEN k + 1 - Len(b) ELSE 1)
       .. (IF k < Len(a) THEN k ELSE Len(a))

\* column k of a * b: the sum of the low halves of the products of the
\* column, and of their high halves
ColLo(a, b, k) ==
    Sum([i \in Rows(a, b, k) |-> (a[i] * b[k + 1 - i]) % 32768], Rows(a, b, k))

ColHi(a, b, k) ==
    Sum([i \in Rows(a, b, k) |-> (a[i] * b[k + 1 - i]) \div 32768],
        Rows(a, b, k))

\* the four digit vectors of the column sums lo and hi are added
NMulCols(lo, hi, n) ==
    NAdd(NAdd([k \in 1..n |-> lo[k] % 32768],
              [k \in 1..n |-> IF k > 1 THEN lo[k - 1] \div 32768 ELSE 0]),
         NAdd([k \in 1..n |-> IF k > 1 THEN hi[k - 1] % 32768 ELSE 0],
              [k \in 1..n |-> IF k > 2 THEN hi[k - 2] \div 32768 ELSE 0]))

\* a * b
NMul(a, b) ==
    IF a = <<>> \/ b = <<>> THEN <<>>
    ELSE NMulCols([k \in 1..(Len(a) + Len(b)) |-> ColLo(a, b, k)],
                  [k \in 1..(Len(a) + Len(b)) |-> ColHi(a, b, k)],
                  Len(a) + Len(b))

Zeros(n) == [i \in 1..n |-> 0]

\* a * m, for m a power of 2 up to 2^14
NShlBits(a, m) ==
    Trim([i \in 1..(Len(a) + 1) |->
             ((Limb(a, i) * m) % 32768) + ((Limb(a, i - 1) * m) \div 32768)])

\* a * 2^k
NShl(a, k) ==
    IF a = <<>> THEN <<>> ELSE Zeros(k \div 15) \o NShlBits(a, 2 ^ (k % 15))

\* a without its q low limbs, \div m, for m a power of 2 up to 2^14
NShrBits(a, q, m) ==
    Trim([i \in 1..(Len(a) - q) |->
             (a[q + i] \div m) + ((Limb(a, q + i + 1) % m) * (32768 \div m))])

\* a \div 2^k
NShr(a, k) ==
    IF k \div 15 >= Len(a) THEN <<>> ELSE NShrBits(a, k \div 15, 2 ^ (k % 15))

\* the number of bits of 0 <= n < 2^15
BitLen(n) == CHOOSE k \in 0..15 : 2 ^ k > n /\ (k = 0 \/ 2 ^ (k - 1) <= n)

NBits(a) == IF a = <<>> THEN 0 ELSE 15 * (Len(a) - 1) + BitLen(a[Len(a)])

\* Long division in base 2^15, most significant limb first, of a by d whose
\* top limb is at least 2^14.  The estimate of a quotient limb from the two
\* top limbs of the running remainder is at most 2 too large.
QuotEst(cur, d) ==
    (Limb(cur, Len(d) + 1) * 32768 + Limb(cur, Len(d))) \div d[Len(d)]

QuotLimb(cur, d, q0) ==
    IF NCmp(NMulSmall(d, q0), cur) <= 0 THEN q0
    ELSE IF NCmp(NMulSmall(d, q0 - 1), cur) <= 0 THEN q0 - 1
    ELSE q0 - 2

RECURSIVE NDivStep(_, _, _, _, _)
\* limb i of the quotient is qd: on to limb i - 1
NDivNext(a, d, i, q, cur, qd) ==
    IF qd = 0 THEN NDivStep(a, d, i - 1, cur, <<0>> \o q)
    ELSE NDivStep(a, d, i - 1, NSub(cur, NMulSmall(d, qd)), <<qd>> \o q)

NDivLimb(a, d, i, q, cur) ==
    NDivNext(a, d, i, q, cur,
             QuotLimb(cur, d, IF QuotEst(cur, d) > 32767 THEN 32767
                              ELSE QuotEst(cur, d)))

\* r is the remainder so far, q the limbs of the quotient so far
NDivStep(a, d, i, r, q) ==
    IF i = 0 THEN [q |-> q, r |-> r]
    ELSE NDivLimb(a, d, i, q, Trim(<<a[i]>> \o r))

NDivOut(x, s) == [q |-> Trim(x.q), r |-> NShr(x.r, s)]

\* as and ds are a and d shifted by s bits
NDivRun(as, ds, s) ==
    NDivOut(NDivStep(as, ds, Len(as) - Len(ds) + 1,
                     Trim(SubSeq(as, Len(as) - Len(ds) + 2, Len(as))), <<>>),
            s)

NDivNorm(a, d, s) == NDivRun(NShl(a, s), NShl(d, s), s)

\* quotient and remainder of a by d > 0
NDivMod(a, d) ==
    IF NCmp(a, d) < 0 THEN [q |-> <<>>, r |-> a]
    ELSE NDivNorm(a, d, 15 - BitLen(d[Len(d)]))

----------------------------------------------------------------------------
(* IEEE-754 doubles greater than 0: [m, e] is m * 2^e, 2^52 <= m < 2^53.   *)
(* Every operation rounds to nearest, ties to even.                        *)

\* q1 is the mantissa after rounding: it may have grown to 54 bits
FRoundNorm(q1, e) ==
    IF NBits(q1) = 54 THEN [m |-> NShr(q1, 1), e |-> e + 1]
    ELSE [m |-> q1, e |-> e]

\* q is the mantissa cut to 53 bits, c compares what was cut off with a half
FRoundUp(q, c, e) ==
    FRoundNorm(IF c > 0 \/ (c = 0 /\ q[1] % 2 = 1) THEN NAdd(q, <<1>>) ELSE q,
               e)

FRoundCut(N, e, sh, q) ==
    FRoundUp(q, NCmp(NSub(N, NShl(q, sh)), NShl(<<1>>, sh - 1)), e + sh)

FRoundBits(N, e, bits) ==
    IF bits <= 53 THEN [m |-> NShl(N, 53 - bits), e |-> e - (53 - bits)]
    ELSE FRoundCut(N, e, bits - 53, NShr(N, bits - 53))

\* the double nearest to N * 2^e, N > 0
FRound(N, e) == FRoundBits(N, e, NBits(N))

\* float(n) of an integer n > 0
FloatOfInt(n) == FRound(NatOf(n), 0)

\* a * b
FMul(a, b) == FRound(NMul(a.m, b.m), a.e + b.e)

FDivOut(dm, e) ==
    FRound(NAdd(NShl(dm.q, 1), IF dm.r = <<>> THEN <<>> ELSE <<1>>), e)

\* a / b: the quotient to 57 bits and a sticky bit, then rounded
FDiv(a, b) ==
    IF a.m = <<>> THEN a
    ELSE FDivOut(NDivMod(NShl(a.m, 56), b.m), a.e - b.e - 57)

\* float("h/100"): the decimal text of h hundredths, correctly rounded
FloatOfCenti(h) == FDiv(FloatOfInt(h), FloatOfInt(100))

\* int(x): truncation
FTrunc(x) ==
    IF x.e >= 0 THEN IntOf(NShl(x.m, x.e)) ELSE IntOf(NShr(x.m, 0 - x.e))

\* round(x) of Python 2: to the nearest integer, halves away from zero
FRoundInt(x) ==
    (IntOf(IF x.e + 1 >= 0 THEN NShl(x.m, x.e + 1)
           ELSE NShr(x.m, 0 - (x.e + 1))) + 1) \div 2

\* pi, in the quarter degrees of the trigonometric table
pi == 720

\* pi / 180 as a double: 0x1.1df46a2529d39p-6
degToRad == [m |-> <<7481, 17573, 32026, 142>>, e |-> -58]

\* math.radians
radians(x) == FMul(x, degToRad)

----------------------------------------------------------------------------
(* Exact rationals: [neg, n, d] is (-1)^neg * n / d, d > 0; not reduced.   *)

QMk(neg, n, d) == [neg |-> neg /\ n # <<>>, n |-> n, d |-> d]

QOf(i) == QMk(i < 0, NatOf(IF i < 0 THEN 0 - i ELSE i), <<1>>)

QFrac(i, j) == QMk(i < 0, NatOf(IF i < 0 THEN 0 - i ELSE i), NatOf(j))

QNeg(a) == QMk(~a.neg, a.n, a.d)

QIsZero(a) == a.n = <<>>

QMul(a, b) == QMk(a.neg # b.neg, NMul(a.n, b.n), NMul(a.d, b.d))

\* a / b, for b # 0; a common denominator cancels
QDiv(a, b) ==
    IF a.d = b.d THEN QMk(a.neg # b.neg, a.n, b.n)
    ELSE QMk(a.neg # b.neg, NMul(a.n, b.d), NMul(a.d, b.n))

\* (-1)^an * x / d + (-1)^bn * y / d
QAddN(an, x, bn, y, d) ==
    IF an = bn THEN QMk(an, NAdd(x, y), d)
    ELSE IF NCmp(x, y) >= 0 THEN QMk(an, NSub(x, y), d)
    ELSE QMk(bn, NSub(y, x), d)

QAdd(a, b) ==
    QAddN(a.neg, IF a.d = b.d THEN a.n ELSE NMul(a.n, b.d),
          b.neg, IF a.d = b.d THEN b.n ELSE NMul(b.n, a.d),
          IF a.d = b.d THEN a.d ELSE NMul(a.d, b.d))

QSub(a, b) == QAdd(a, QNeg(b))

QSign(neg, c) == IF neg THEN 0 - c ELSE c

\* -1, 0 or 1 as a < b, a = b, a > b
QCmp(a, b) ==
    IF a.neg # b.neg THEN (IF a.neg THEN -1 ELSE 1)
    ELSE IF a.d = b.d THEN QSign(a.neg, NCmp(a.n, b.n))
    ELSE QSign(a.neg, NCmp(NMul(a.n, b.d), NMul(b.n, a.d)))

QEq(a, b) == QCmp(a, b) = 0
QLe(a, b) == QCmp(a, b) <= 0
QLt(a, b) == QCmp(a, b) < 0

\* Python's min(a, b) and max(a, b): the first argument on a tie
QMin(a, b) == IF QLt(b, a) THEN b ELSE a
QMax(a, b) == IF QLt(a, b) THEN b ELSE a

----------------------------------------------------------------------------
(* math.cos and math.sin.  An angle is a whole number of quarter degrees;  *)
(* CosTab[q + 1] is cos(q / 4 degrees), rounded to six decimals.           *)

CosTab ==
    << 1000000, 999990, 999962, 999914, 999848, 999762, 999657, 999534,
       999391, 999229, 999048, 998848, 998630, 998392, 998135, 997859,
       997564, 997250, 996917, 996566, 996195, 995805, 995396, 994969,
       994522, 994056, 993572, 993068, 992546, 992005, 991445, 990866,
       990268, 989651, 989016, 988362, 987688, 986996, 986286, 985556,
       984808, 984041, 983255, 982450, 981627, 980785, 979925, 979045,
       978148, 977231, 976296, 975342, 974370, 973379, 972370, 971342,
       970296, 969231, 968148, 967046, 965926, 964787, 963630, 962455,
       961262, 960050, 958820, 957571, 956305, 955020, 953717, 952396,
       951057, 949699, 948324, 946930, 945519, 944089, 942641, 941176,
       939693, 938191, 936672, 935135, 933580, 932008, 930418, 928810,
       927184, 925541, 923880, 922201, 920505, 918791, 917060, 915311,
       913545, 911762, 909961, 908143, 906308, 904455, 902585, 900698,
       898794, 896873, 894934, 892979, 891007, 889017, 887011, 884988,
       882948, 880891, 878817, 876727, 874620, 872496, 870356, 868199,
       866025, 863836, 861629, 859406, 857167, 854912, 852640, 850352,
       848048, 845728, 843391, 841039, 838671, 836286, 833886, 831470,
       829038, 826590, 824126, 821647, 819152, 816642, 814116, 811574,
       809017, 806445, 803857, 801254, 798636, 796002, 793353, 790690,
       788011, 785317, 782608, 779884, 777146, 774393, 771625, 768842,
       766044, 763232, 760406, 757565, 754710, 751840, 748956, 746057,
       743145, 740218, 737277, 734323, 731354, 728371, 725374, 722364,
       719340, 716302, 713250, 710185, 707107, 704015, 700909, 697790,
       694658, 691513, 688355, 685183, 681998, 678801, 675590, 672367,
       669131, 665882, 662620, 659346, 656059, 652760, 649448, 646124,
       642788, 639439, 636078, 632705, 629320, 625923, 622515, 619094,
       615661, 612217, 608761, 605294, 601815, 598325, 594823, 591310,
       587785, 584250, 580703, 577145, 573576, 569997, 566406, 562805,
       559193, 555570, 551937, 548293, 544639, 540974, 537300, 533615,
       529919, 526214, 522499, 518773, 515038, 511293, 507538, 503774,
       500000, 496217, 492424, 488621, 484810, 480989, 477159, 473320,
       469472, 465615, 461749, 457874, 453990, 450098, 446198, 442289,
       438371, 434445, 430511, 426569, 422618, 418660, 414693, 410719,
       406737, 402747, 398749, 394744, 390731, 386711, 382683, 378649,
       374607, 370557, 366501, 362438, 358368, 354291, 350207, 346117,
       342020, 337917, 333807, 329691, 325568, 321439, 317305, 313164,
       309017, 304864, 300706, 296542, 292372, 288196, 284015, 279829,
       275637, 271440, 267238, 263031, 258819, 254602, 250380, 246153,
       241922, 237686, 233445, 229200, 224951, 220697, 216440, 212178,
       207912, 203642, 199368, 195090, 190809, 186524, 182236, 177944,
       173648, 169350, 165048, 160743, 156434, 152123, 147809, 143493,
       139173, 134851, 130526, 126199, 121869, 117537, 113203, 108867,
       104528, 100188, 95846, 91502, 87156, 82808, 78459, 74108,
       69756, 65403, 61049, 56693, 52336, 47978, 43619, 39260,
       34899, 30539, 26177, 21815, 17452, 13090, 8727, 4363,
       0 >>

CosMillionths(q) ==
    LET r == q % 1440
    IN  IF r <= 360 THEN CosTab[r + 1]
        ELSE IF r <= 720 THEN 0 - CosTab[720 - r + 1]
        ELSE IF r <= 1080 THEN 0 - CosTab[r - 720 + 1]
        ELSE CosTab[1440 - r + 1]

cos(q) == QFrac(CosMillionths(q), 1000000)

sin(q) == QFrac(CosMillionths(q - 360), 1000000)

tan(q) == QDiv(sin(q), cos(q))

----------------------------------------------------------------------------
(* helper.py: points, ptoc and the text measurements.                      *)

Point(x, y) == [x |-> x, y |-> y]

Origin == Point(QOf(0), QOf(0))

\* ptoc(theta, r, p): theta in quarter degrees
ptoc(theta, r, p) ==
    Point(QAdd(p.x, QMul(cos(theta), r)), QSub(p.y, QMul(sin(theta), r)))

\* A faulty reverse, which leaves the list as it is
Reverse_not(s) == s

\* list.reverse()
Reverse(s) == [i \in 1..Len(s) |-> s[Len(s) + 1 - i]]

RECURSIVE NumDigits(_)
NumDigits(n) == IF n < 10 THEN 1 ELSE 1 + NumDigits(n \div 10)

\* len(str(int(round(d)))) of a whole number d >= 0
IntLabelLen(d) == NumDigits(d)

\* len(str(round(v, 3))): sign, whole part, the point, then the decimals
\* without trailing zeros (one at least)
DecLabelLen(v) ==
    LET wf == NDivMod(NDivMod(NAdd(NMulSmall(v.n, 2000), v.d),
                              NMulSmall(v.d, 2)).q, <<1000>>)
        dl(frac) == IF frac % 100 = 0 THEN 1 ELSE IF frac % 10 = 0 THEN 2
                    ELSE 3
        wl(whole) == IF whole = <<>> THEN 1 ELSE NumDigits(IntOf(whole))
    IN  (IF v.neg THEN 1 ELSE 0) + wl(wf.q) + 1 + dl(IntOf(wf.r))

\* ctx.text_extents(l) of a label of n characters at font size ti.size: the
\* canvas' font gives the advance of a character and the height of a line,
\* both per unit of font size
TextWidth(font, ti, n) == QMul(QMul(font.adv, ti.size), QOf(n))
TextHeight(font, ti, n) == QMul(font.cap, ti.size)

RECURSIVE MaxFrom(_, _)
MaxFrom(vals, m) ==
    IF vals = <<>> THEN m
    ELSE MaxFrom(Tail(vals), IF QLt(m, Head(vals)) THEN Head(vals) ELSE m)

\* max_w += 2 * ti.padding, if padding
Padded(m, ti, padding) ==
    IF padding THEN QAdd(m, QMul(ti.padding, QOf(2))) ELSE m

get_largest_text_width(font, labels, ti, padding) ==
    Padded(MaxFrom([i \in 1..Len(labels) |->
                       TextWidth(font, ti, labels[i])], QOf(0)), ti, padding)

get_largest_text_height(font, labels, ti, padding) ==
    Padded(MaxFrom([i \in 1..Len(labels) |->
                       TextHeight(font, ti, labels[i])], QOf(0)), ti, padding)

----------------------------------------------------------------------------
(* flange.py: the catalogue and Flange.__init__.                           *)

\* A faulty catalogue, in which the raised face of 400PN16 is entered wider
\* than its bolt circle
dims_raised_face_too_wide ==
    "100PN16" :> <<100, 220, 20, 180, 18, 8, 158, 2>> @@
    "125PN16" :> <<125, 250, 22, 210, 18, 8, 188, 2>> @@
    "150PN16" :> <<150, 285, 22, 240, 22, 8, 212, 2>> @@
    "200PN16" :> <<200, 340, 24, 295, 22, 12, 268, 2>> @@
    "250PN16" :> <<250, 405, 26, 355, 26, 12, 320, 2>> @@
    "300PN16" :> <<300, 460, 28, 410, 26, 12, 378, 2>> @@
    "400PN16" :> <<400, 580, 32, 525, 30, 16, 549, 2>>

dims ==
    "100PN16" :> <<100, 220, 20, 180, 18, 8, 158, 2>> @@
    "125PN16" :> <<125, 250, 22, 210, 18, 8, 188, 2>> @@
    "150PN16" :> <<150, 285, 22, 240, 22, 8, 212, 2>> @@
    "200PN16" :> <<200, 340, 24, 295, 22, 12, 268, 2>> @@
    "250PN16" :> <<250, 405, 26, 355, 26, 12, 320, 2>> @@
    "300PN16" :> <<300, 460, 28, 410, 26, 12, 378, 2>> @@
    "400PN16" :> <<400, 580, 32, 525, 30, 16, 490, 2>>

\* Flange.dims as the program holds it: a dictionary of the class, which any
\* code that can name the class could write to
VARIABLE Flange_dims

\* Python's None
None == [none |-> TRUE]

Raised(e) == [err |-> e, val |-> None]
Returned(v) == [err |-> "none", val |-> v]

\* A faulty lookup, which falls back on the first entry of the catalogue for
\* a name that is no key
FlangeDimsOrFirst(name) ==
    Returned(Flange_dims[IF name \in DOMAIN Flange_dims THEN name
                         ELSE "100PN16"])

\* Flange.dims[name]: a KeyError for a name that is no key
FlangeDims(name) ==
    IF name \in DOMAIN Flange_dims THEN Returned(Flange_dims[name])
    ELSE Raised("KeyError")

FlangeOf(name, d) ==
    IF d.err # "none" THEN Raised(d.err)
    ELSE Returned([name                 |-> name,
                   hole_diameter        |-> d.val[1],
                   flange_diameter      |-> d.val[2],
                   flange_thickness     |-> d.val[3],
                   bolt_circle_diameter |-> d.val[4],
                   bolt_hole_diameter   |-> d.val[5],
                   num_bolts            |-> d.val[6],
                   raised_face_diameter |-> d.val[7],
                   raised_face_height   |-> d.val[8]])

\* Flange(name)
Flange(name) == FlangeOf(name, FlangeDims(name))

----------------------------------------------------------------------------
(* component.py, pipe.py: the constructors of the base classes.            *)

TextInfo(size, padding) == [size |-> QOf(size), padding |-> QOf(padding)]

\* DrawnComponent.__init__: hatching is False, so no canvas is made here
DrawnComponent ==
    [scale              |-> QOf(1),
     drawing_line_width |-> QFrac(1, 2),
     hatching           |-> FALSE,
     dash_style         |-> <<QOf(7), QOf(2), QOf(2), QOf(2)>>,
     text               |-> [dims   |-> TextInfo(8, 3),
                             info   |-> TextInfo(8, 3),
                             notice |-> TextInfo(10, 3)]]

\* Pipe.__init__, once self.flange is made
PipeOf(casingod, casingid, liningod, liningid, f) ==
    IF f.err # "none" THEN Raised(f.err)
    ELSE Returned(
           [flange    |-> f.val,
            diameters |-> [co |-> casingod, ci |-> casingid,
                           lo |-> liningod, li |-> liningid,
                           fi |-> f.val.hole_diameter,
                           fo |-> f.val.flange_diameter],
            p_rad     |-> [co |-> QFrac(casingod, 2),
                           ci |-> QFrac(casingid, 2),
                           lo |-> QFrac(liningod, 2),
                           li |-> QFrac(liningid, 2),
                           fi |-> QFrac(f.val.hole_diameter, 2),
                           fo |-> QFrac(f.val.flange_diameter, 2)]]
           @@ DrawnComponent)

\* Pipe.__init__
Pipe(casingod, casingid, liningod, liningid, flange) ==
    PipeOf(casingod, casingid, liningod, liningid, Flange(flange))

Comps == <<"co", "ci", "lo", "li">>

----------------------------------------------------------------------------
(* pipebend.py: PipeBend.__init__ and get_segment_points.                  *)
(* An angle is kept twice: f is the double in radians the code holds, q    *)
(* the same angle in quarter degrees, which is what cos and sin are        *)
(* tabulated on.  bendangle is in degrees, segangle in hundredths of a     *)
(* degree (the decimal text of the form field).                            *)

BendArc(bendangle) ==
    [f |-> radians(FloatOfInt(bendangle)), q |-> 4 * bendangle]

SegmentAngle(segangle) ==
    [f |-> radians(FloatOfCenti(segangle)), q |-> segangle \div 25]

\* int(self.bend_arc / self.segment_angle)
NumSegments(bend_arc, segment_angle) ==
    FTrunc(FDiv(bend_arc.f, segment_angle.f))

\* A faulty get_segment_points, whose vertices are whole segment angles
\* apart from the start of the bend: with it an even count has a vertex on
\* the bisector.
SegmentPointsWhole(s_ang, b_arc, num_segments, rad, erad) ==
    <<ptoc(0, rad, Origin)>>
      \o [n \in 1..num_segments |-> ptoc(s_ang * n, erad, Origin)]
      \o <<ptoc(b_arc, rad, Origin)>>

\* the vertices of a layer boundary: rad at both ends, erad between them
SegmentPoints(s_ang, b_arc, num_segments, rad, erad) ==
    <<ptoc(0, rad, Origin)>>
      \o [n \in 1..num_segments |->
             ptoc((s_ang * (2 * n - 1)) \div 2, erad, Origin)]
      \o <<ptoc(b_arc, rad, Origin)>>

get_segment_points(self, rad) ==
    SegmentPoints(self.segment_angle.q, self.bend_arc.q, self.num_segments,
                  rad, QDiv(rad, cos(self.segment_angle.q \div 2)))

\* self.radii[i][d] * tan(self.segment_angle / 2) * 2
SegDim(self, rad) ==
    QMul(QMul(rad, tan(self.segment_angle.q \div 2)), QOf(2))

\* outer_radii (sign 1) and inner_radii (sign -1)
Radii(nomrad, diameters, sign) ==
    [k \in {"nom", "co", "ci", "lo", "li", "fo"} |->
        IF k = "nom" THEN QOf(nomrad)
        ELSE QFrac(2 * nomrad + sign * diameters[k], 2)]

\* PipeBend.__init__ up to self.radii; p is what Pipe.__init__ has set
PipeBendFields(p, nomrad, bendangle, segangle, ctype, exdimdrg, exdimbox, arc, seg) ==
    [kind                |-> "bend",
     dos_dim_line_length |-> QOf(30),
     dos_dim_dp          |-> 3,
     bend_arc_d          |-> bendangle,
     segment_angle_d     |-> segangle,
     bend_arc            |-> arc,
     segment_angle       |-> seg,
     num_segments        |-> NumSegments(arc, seg),
     casing_type         |-> ctype,
     ex_dim_box          |-> exdimbox,
     ex_dim_drg          |-> exdimdrg,
     diameters           |-> [nom |-> nomrad * 2] @@ p.diameters,
     radii               |-> [inner |-> Radii(nomrad, p.diameters, -1),
                              outer |-> Radii(nomrad, p.diameters, 1),
                              nom   |-> QOf(nomrad)]] @@ p

\* PipeBend.__init__ from self.segdims on
PipeBendPoints(a) ==
    [segdims |-> [cex  |-> SegDim(a, a.radii.outer.co),
                  cin  |-> SegDim(a, a.radii.inner.co),
                  lex  |-> SegDim(a, a.radii.outer.lo),
                  lin  |-> SegDim(a, a.radii.inner.lo),
                  mean |-> SegDim(a, a.radii.outer.nom)],
     pc_pts  |-> [out |-> [k \in {"co", "ci", "lo", "li"} |->
                             get_segment_points(a, a.radii.outer[k])],
                  in  |-> [k \in {"co", "ci", "lo", "li"} |->
                             Reverse(get_segment_points(a, a.radii.inner[k]))],
                  ctr |-> get_segment_points(a, a.radii.nom)]] @@ a

PipeBendOf(p, nomrad, bendangle, segangle, ctype, exdimdrg, exdimbox) ==
    IF p.err # "none" THEN Raised(p.err)
    ELSE Returned(PipeBendPoints(
             PipeBendFields(p.val, nomrad, bendangle, segangle, ctype,
                            exdimdrg, exdimbox, BendArc(bendangle),
                            SegmentAngle(segangle))))

PipeBend(nomrad, casingod, casingid, liningod, liningid, bendangle, segangle, ctype, flange, exdimdrg, exdimbox) ==
    PipeBendOf(Pipe(casingod, casingid, liningod, liningid, flange),
               nomrad, bendangle, segangle, ctype, exdimdrg, exdimbox)

----------------------------------------------------------------------------
(* pipestraight.py: PipeStraight.__init__.                                 *)

\* the points of a straight, for y in [0, -self.length]
StraightPoints(p_rad, ys) ==
    [out |-> [k \in {"co", "ci", "lo", "li"} |->
                [i \in 1..2 |-> Point(p_rad[k], ys[i])]],
     in  |-> [k \in {"co", "ci", "lo", "li"} |->
                Reverse([i \in 1..2 |-> Point(QNeg(p_rad[k]), ys[i])])],
     ctr |-> [i \in 1..2 |-> Point(QOf(0), ys[i])]]

PipeStraightOf(p, length) ==
    IF p.err # "none" THEN Raised(p.err)
    ELSE Returned([kind                         |-> "straight",
                   length                       |-> length,
                   len_dim_line_length          |-> QOf(0),
                   len_dim_line_length_offset_m |-> 1,
                   len_dim_line_length_width_m  |-> 2,
                   pc_pts |-> StraightPoints(p.val.p_rad,
                                             <<QOf(0), QOf(0 - length)>>)]
                  @@ p.val)

PipeStraight(length, casingod, casingid, liningod, liningid, flange) ==
    PipeStraightOf(Pipe(casingod, casingid, liningod, liningid, flange),
                   length)

----------------------------------------------------------------------------
(* The canvas: a cairo context is its font and the log of the calls made   *)
(* on it, each with the arguments the properties below look at.            *)

Op(name, args) == [op |-> name, args |-> args]

Call(ctx, name, args) == [ctx EXCEPT !.ops = Append(@, Op(name, args))]

CallAll(ctx, ops) == [ctx EXCEPT !.ops = @ \o ops]

----------------------------------------------------------------------------
(* set_scale of DrawnComponent, Pipe, PipeBend and PipeStraight.           *)

\* DrawnComponent.set_scale: dash style, fonts and line width are upscaled
DrawnComponent_set_scale(self) ==
    LET up(ti) == [size    |-> QDiv(ti.size, self.scale),
                   padding |-> QDiv(ti.padding, self.scale)]
    IN  [self EXCEPT
           !.dash_style = [i \in 1..Len(@) |-> QDiv(@[i], self.scale)],
           !.text = [k \in DOMAIN @ |-> up(@[k])],
           !.drawing_line_width = QDiv(@, self.scale)]

\* A faulty Pipe.set_scale, which turns the centre line around
Pipe_set_scale_turning(self) ==
    DrawnComponent_set_scale(
        [self EXCEPT !.dim_line_length = QDiv(@, self.scale),
                     !.pc_pts.ctr = Reverse(@)])

\* Pipe.set_scale
Pipe_set_scale(self) ==
    DrawnComponent_set_scale(
        [self EXCEPT !.dim_line_length = QDiv(@, self.scale)])

\* str(int(round(self.diameters[comp]))) for the four components, as lengths
RadValues(self) == [i \in 1..4 |-> IntLabelLen(self.diameters[Comps[i]])]

\* str(round(self.segdims[dim].value, dpt)) for cex, cin, lex, lin
DimValues(self) ==
    <<DecLabelLen(self.segdims.cex), DecLabelLen(self.segdims.cin),
      DecLabelLen(self.segdims.lex), DecLabelLen(self.segdims.lin)>>

\* Faulty extents, whose ang_w is taken from the outer radius of the casing
BendExtentsOuter(self, rdm) ==
    [bfr   |-> self.radii.outer.fo,
     flr   |-> self.p_rad.fo,
     rad_w |-> self.radii.outer.fo,
     ang_w |-> QSub(self.radii.outer.fo,
                    QMul(cos(self.bend_arc.q), self.radii.outer.co)),
     dm_w  |-> QMul(cos(pi \div 2 - self.bend_arc.q), rdm),
     rad_h |-> QAdd(QMul(sin(self.bend_arc.q), self.radii.outer.fo),
                    self.p_rad.fo),
     ang_h |-> QAdd(QMul(sin(self.bend_arc.q), self.radii.outer.co),
                    self.p_rad.fo),
     dm_h  |-> QMul(sin(pi \div 2 - self.bend_arc.q), rdm)]

\* the extents of a bend that PipeBend.set_scale fits to the page; rdm is
\* the room of the radius dimension lines
BendExtents(self, rdm) ==
    [bfr   |-> self.radii.outer.fo,
     flr   |-> self.p_rad.fo,
     rad_w |-> self.radii.outer.fo,
     ang_w |-> QSub(self.radii.outer.fo,
                    QMul(cos(self.bend_arc.q), self.radii.inner.co)),
     dm_w  |-> QMul(cos(pi \div 2 - self.bend_arc.q), rdm),
     rad_h |-> QAdd(QMul(sin(self.bend_arc.q), self.radii.outer.fo),
                    self.p_rad.fo),
     ang_h |-> QAdd(QMul(sin(self.bend_arc.q), self.radii.outer.co),
                    self.p_rad.fo),
     dm_h  |-> QMul(sin(pi \div 2 - self.bend_arc.q), rdm)]

\* A faulty scale, whose second candidate is (dm_w - page_w) / ang_w: it
\* shrinks as the page widens
ScaleOfReversed(e, page_w, page_h) ==
    QMin(QMin(QDiv(page_w, e.bfr), QDiv(QSub(e.dm_w, page_w), e.ang_w)),
         QMin(QDiv(page_h, e.rad_h), QDiv(QSub(page_h, e.dm_h), e.ang_h)))

\* min(x_scale, y_scale) of the extents e
ScaleOf(e, page_w, page_h) ==
    QMin(QMin(QDiv(page_w, e.bfr), QDiv(QSub(page_w, e.dm_w), e.ang_w)),
         QMin(QDiv(page_h, e.rad_h), QDiv(QSub(page_h, e.dm_h), e.ang_h)))

\* the scale factor of PipeBend.set_scale
BendScale(self, page_w, page_h, rdm) ==
    ScaleOf(BendExtents(self, rdm), page_w, page_h)

\* page - (page - bend) / 2 - r, for a page already divided by the scale
OriginAt(page, bend, r) ==
    QSub(QSub(page, QDiv(QSub(page, bend), QOf(2))), r)

OriginOf(e, page_w, page_h, scale) ==
    Point(OriginAt(page_w,
                   QMax(e.rad_w, QAdd(e.ang_w, QDiv(e.dm_w, scale))), e.bfr),
          OriginAt(page_h,
                   QMax(e.rad_h, QAdd(e.ang_h, QDiv(e.dm_h, scale))), e.flr))

\* the origin of PipeBend.set_scale, for a scale that is not zero
BendOrigin(self, page_w, page_h, rdm, scale) ==
    OriginOf(BendExtents(self, rdm), QDiv(page_w, scale),
             QDiv(page_h, scale), scale)

\* What a set_scale hands back: the component, the canvas, and the errors
\* it can end with ("none" when it returns).  A scale of zero stops it:
\* the canvas refuses the degenerate matrix, or else the division of the
\* page width by the scale fails.
ScaleRaises == {"cairo.Error", "ZeroDivisionError"}

\* PipeBend.set_scale from self.scale = ... on
BendScaled(self, ctx, page_w, page_h, rdm, scale) ==
    IF QIsZero(scale)
    THEN [self |-> [self EXCEPT !.scale = scale],
          ctx  |-> Call(ctx, "scale", <<scale, scale>>),
          errs |-> ScaleRaises]
    ELSE [self |-> Pipe_set_scale(
                     [self EXCEPT !.scale = scale,
                                  !.dos_dim_line_length = QDiv(@, scale)]),
          ctx  |-> CallAll(ctx,
                     <<Op("scale", <<scale, scale>>),
                       Op("translate",
                          BendOrigin(self, page_w, page_h, rdm, scale))>>),
          errs |-> {"none"}]

\* the calls get_largest_text_width and get_largest_text_height make on the
\* canvas around their measurements
Measuring(ti) ==
    <<Op("save", <<>>), Op("select_font_face", <<>>),
      Op("set_font_size", <<ti.size>>), Op("restore", <<>>)>>

\* PipeBend.set_scale once the two dimension line lengths are measured
BendSized(self, ctx, page_w, page_h, ddm, rdm) ==
    BendScaled([dim_line_length |-> rdm]
                 @@ [self EXCEPT !.dos_dim_line_length = ddm],
               CallAll(ctx, Measuring(self.text.dims)
                              \o Measuring(self.text.dims)),
               page_w, page_h, QMul(rdm, QOf(4)),
               BendScale(self, page_w, page_h, QMul(rdm, QOf(4))))

PipeBend_set_scale(self, ctx, page_w, page_h) ==
    BendSized(self, ctx, page_w, page_h,
              get_largest_text_width(ctx.font, DimValues(self),
                                     self.text.dims, TRUE),
              get_largest_text_width(ctx.font, RadValues(self),
                                     self.text.dims, TRUE))

\* A faulty scale of a straight, whose height leaves out the flange radius
StraightScaleNoFlange(self, page_w, page_h, ldm, rdm) ==
    QMin(QDiv(QSub(page_w, ldm), QOf(self.diameters.fo)),
         QDiv(QSub(page_h, rdm), QOf(self.length)))

\* the scale factor of PipeStraight.set_scale
StraightScale(self, page_w, page_h, ldm, rdm) ==
    QMin(QDiv(QSub(page_w, ldm), QOf(self.diameters.fo)),
         QDiv(QSub(page_h, rdm), QAdd(QOf(self.length), self.p_rad.fo)))

\* (page_w - bend_w) / 2 + flr, for a page already divided by the scale
StraightOriginX(page_w, bend_w, flr) ==
    QAdd(QDiv(QSub(page_w, bend_w), QOf(2)), flr)

\* the origin of PipeStraight.set_scale, for a scale that is not zero
StraightOrigin(self, page_w, page_h, ldm, rdm, scale) ==
    Point(StraightOriginX(QDiv(page_w, scale),
                          QAdd(QOf(self.diameters.fo), QDiv(ldm, scale)),
                          self.p_rad.fo),
          OriginAt(QDiv(page_h, scale),
                   QAdd(QAdd(QOf(self.length), self.p_rad.fo),
                        QDiv(rdm, scale)),
                   self.p_rad.fo))

\* PipeStraight.set_scale from self.scale = ... on
StraightScaled(self, ctx, page_w, page_h, ldm, rdm, scale) ==
    IF QIsZero(scale)
    THEN [self |-> [self EXCEPT !.scale = scale],
          ctx  |-> Call(ctx, "scale", <<scale, scale>>),
          errs |-> ScaleRaises]
    ELSE [self |-> Pipe_set_scale(
                     [self EXCEPT !.scale = scale,
                                  !.len_dim_line_length = QDiv(@, scale)]),
          ctx  |-> CallAll(ctx,
                     <<Op("scale", <<scale, scale>>),
                       Op("translate",
                          StraightOrigin(self, page_w, page_h, ldm, rdm,
                                         scale))>>),
          errs |-> {"none"}]

\* PipeStraight.set_scale once the two dimension line lengths are measured;
\* m is the multiplier of the length dimension
StraightSized(self, ctx, page_w, page_h, rdm, ldm, m) ==
    StraightScaled([dim_line_length |-> rdm]
                     @@ [self EXCEPT !.len_dim_line_length = ldm],
                   CallAll(ctx, Measuring(self.text.dims)
                                  \o Measuring(self.text.dims)),
                   page_w, page_h, QMul(ldm, QOf(m)), QMul(rdm, QOf(4)),
                   StraightScale(self, page_w, page_h, QMul(ldm, QOf(m)),
                                 QMul(rdm, QOf(4))))

PipeStraight_set_scale(self, ctx, page_w, page_h) ==
    StraightSized(self, ctx, page_w, page_h,
                  get_largest_text_height(ctx.font, RadValues(self),
                                          self.text.dims, TRUE),
                  get_largest_text_width(ctx.font,
                                         <<IntLabelLen(self.length)>>,
                                         self.text.dims, TRUE),
                  self.len_dim_line_length_offset_m
                    + self.len_dim_line_length_width_m)

set_scale(self, ctx, page_w, page_h) ==
    IF self.kind = "bend"
    THEN PipeBend_set_scale(self, Call(ctx, "set_scale", <<>>),
                            page_w, page_h)
    ELSE PipeStraight_set_scale(self, Call(ctx, "set_scale", <<>>),
                                page_w, page_h)

----------------------------------------------------------------------------
(* DrawnComponent.draw and the hooks it calls.  The log of the canvas holds *)
(* the calls made on it and, as calls of their own, the methods that were  *)
(* handed the canvas: draw and its three hooks are logged when they are    *)
(* entered, the drawing methods below draw_component as one call each,     *)
(* except draw_pipe_comp, whose calls on the canvas are logged one by one. *)
(* A run of move_to and line_to along a point list is logged as one call   *)
(* "lines", named after the layer and the lists it runs through.           *)

\* PipeBend.draw_seg_dims_box
draw_seg_dims_box(self, ctx, page_w, page_h) ==
    CallAll(ctx,
      <<Op("set_line_width", <<self.drawing_line_width>>)>>
        \o (IF ~(self.ex_dim_box \/ self.ex_dim_drg) THEN <<>>
            ELSE <<Op("draw_text_box",
                      IF ~self.ex_dim_box THEN <<"mean">>
                      ELSE IF self.casing_type = "segmented"
                           THEN <<"cex", "lex", "mean", "lin", "cin">>
                           ELSE <<"lex", "mean", "lin">>),
                   Op("save", <<>>),
                   Op("select_font_face", <<>>), Op("set_font_size", <<>>),
                   Op("translate", <<"topright">>),
                   Op("set_source_rgb", <<0, 0, 0>>),
                   Op("restore", <<>>)>>))

draw_pre_scale(self, ctx, page_w, page_h) ==
    IF self.kind = "bend"
    THEN draw_seg_dims_box(self, Call(ctx, "draw_pre_scale", <<>>),
                           page_w, page_h)
    ELSE Call(ctx, "draw_pre_scale", <<>>)

\* fill or fill_preserve in the colour of the layer, then the stroke of the
\* outline in the colour of the lines
FillAndOutline(comp, fill, outline) ==
    (IF fill
     THEN <<Op("set_source_rgb", <<comp>>),
            Op(IF outline THEN "fill_preserve" ELSE "fill", <<>>)>>
     ELSE <<>>)
    \o (IF outline
        THEN <<Op("set_source_rgb", <<0, 0, 0>>), Op("stroke", <<>>)>>
        ELSE <<>>)

\* Pipe.draw_pipe_comp: the segmented polygon of a layer
Pipe_draw_pipe_comp(comp, fill, outline, edges) ==
    <<Op("save", <<>>)>>
    \o (IF fill \/ outline
        THEN <<Op("lines", <<comp, "out", "in">>), Op("close_path", <<>>)>>
             \o FillAndOutline(comp, fill, outline)
        ELSE <<>>)
    \o (IF edges
        THEN <<Op("set_source_rgb", <<0, 0, 0>>),
               Op("lines", <<comp, "out">>), Op("stroke", <<>>),
               Op("lines", <<comp, "in">>), Op("stroke", <<>>)>>
        ELSE <<>>)
    \o <<Op("restore", <<>>)>>

\* PipeBend.draw_curved_bend: the annulus sector of a layer
draw_curved_bend(comp, fill, outline, edges) ==
    <<Op("save", <<>>)>>
    \o (IF fill \/ outline
        THEN <<Op("move_to", <<comp, "inner">>),
               Op("line_to", <<comp, "outer">>),
               Op("arc_negative", <<comp, "outer">>),
               Op("line_to", <<comp, "inner">>),
               Op("arc", <<comp, "inner">>),
               Op("close_path", <<>>)>>
             \o FillAndOutline(comp, fill, outline)
        ELSE <<>>)
    \o (IF edges
        THEN <<Op("set_source_rgb", <<0, 0, 0>>),
               Op("arc", <<comp, "outer">>), Op("stroke", <<>>),
               Op("arc", <<comp, "inner">>), Op("stroke", <<>>)>>
        ELSE <<>>)
    \o <<Op("restore", <<>>)>>

\* comp[0] of the four layers
FirstLetter(comp) == IF comp \in {"co", "ci"} THEN "c" ELSE "l"

\* A faulty routing, which draws the outer boundary of both materials curved
Curved_by_boundary(self, comp) ==
    self.kind = "bend" /\ self.casing_type = "onepiece"
                       /\ comp \in {"co", "lo"}

\* PipeBend.draw_pipe_comp hands the layer to draw_curved_bend; a straight
\* has Pipe.draw_pipe_comp only
Curved(self, comp) ==
    self.kind = "bend" /\ self.casing_type = "onepiece"
                       /\ FirstLetter(comp) = "c"

\* self.draw_pipe_comp(ctx, comp, fill, outline, edges)
draw_pipe_comp(self, comp, fill, outline, edges) ==
    IF Curved(self, comp)
    THEN draw_curved_bend(comp, fill, outline, edges)
    ELSE Pipe_draw_pipe_comp(comp, fill, outline, edges)

\* A faulty order of the layers, which outlines the casing before the
\* lining is filled
LayersOutlineFirst(self) ==
    draw_pipe_comp(self, "co", TRUE, TRUE, FALSE)
    \o draw_pipe_comp(self, "ci", TRUE, FALSE, TRUE)
    \o draw_pipe_comp(self, "lo", TRUE, FALSE, TRUE)
    \o draw_pipe_comp(self, "li", TRUE, FALSE, TRUE)

\* the five calls of draw_pipe_comp in Pipe.draw_component
Layers(self) ==
    draw_pipe_comp(self, "co", TRUE, FALSE, FALSE)
    \o draw_pipe_comp(self, "ci", TRUE, FALSE, TRUE)
    \o draw_pipe_comp(self, "lo", TRUE, FALSE, TRUE)
    \o draw_pipe_comp(self, "li", TRUE, FALSE, TRUE)
    \o draw_pipe_comp(self, "co", FALSE, TRUE, FALSE)

\* ctx.set_dash(dash_style) puts the canvas in error for a negative length
DashRefused(dash_style) ==
    \E i \in 1..Len(dash_style) : QLt(dash_style[i], QOf(0))

----------------------------------------------------------------------------
(* helper.py: draw_dim_line.  The coordinates of its endpoints are floats  *)
(* in the program and exact here.  An angle that atan returned is kept as  *)
(* the tangent it was taken of: [tan |-> t, turn |-> q] is atan(t) plus q  *)
(* quarter degrees.  draw_arrowhead and draw_dim_label are logged as one   *)
(* call each, with the angle and the point they were handed.               *)

Angle(t, q) == [tan |-> t, turn |-> q]

\* draw_arrowhead: the call, and what it does to the state of the canvas
draw_arrowhead(angle, p) ==
    <<Op("draw_arrowhead", <<angle, p>>), Op("save", <<>>),
      Op("set_source_rgb", <<0, 0, 0>>), Op("restore", <<>>)>>

\* draw_dim_label: the call, and what it does to the state of the canvas
draw_dim_label(p) ==
    <<Op("draw_dim_label", <<p>>), Op("save", <<>>),
      Op("translate", <<p.x, p.y>>),
      Op("select_font_face", <<>>), Op("set_font_size", <<>>),
      Op("set_source_rgb", <<1, 1, 1>>),
      Op("set_source_rgb", <<0, 0, 0>>), Op("restore", <<>>)>>

\* atan((pe.y - ps.y) / (ps.x - pe.x))
SlopeAngle(ps, pe) ==
    IF QIsZero(QSub(ps.x, pe.x)) THEN Raised("ZeroDivisionError")
    ELSE Returned(Angle(QDiv(QSub(pe.y, ps.y), QSub(ps.x, pe.x)), 0))

\* A faulty draw_dim_line, which does not handle the division by zero
DimLineAngleUnhandled(ps, pe, a) == a

\* the try statement of draw_dim_line; a is what its body handed back
DimLineAngle(ps, pe, a) ==
    IF a.err = "ZeroDivisionError"
    THEN Returned(IF QLt(ps.y, pe.y) THEN Angle(QOf(0), pi \div 2)
                  ELSE Angle(QOf(0), (pi * 3) \div 2))
    ELSE a

\* A faulty adjustment, which turns the arrowhead of the other end
ArrowTurnsSwapped(ps, pe) == IF QLt(ps.x, pe.x) THEN <<0, 1>> ELSE <<1, 0>>

\* a = [1, 0] if pe.x > ps.x else [0, 1]
ArrowTurns(ps, pe) == IF QLt(ps.x, pe.x) THEN <<1, 0>> ELSE <<0, 1>>

\* draw_dim_line from the arrowheads on: angle + pi * o for o in a
DimLineEnds(ps, pe, angle, a) ==
    draw_arrowhead(Angle(angle.tan, angle.turn + pi * a[1]), ps)
    \o draw_arrowhead(Angle(angle.tan, angle.turn + pi * a[2]), pe)
    \o draw_dim_label(Point(QDiv(QAdd(ps.x, pe.x), QOf(2)),
                            QDiv(QAdd(ps.y, pe.y), QOf(2))))
    \o <<Op("restore", <<>>)>>

\* draw_dim_line once the angle is resolved to r
DimLineDrawn(ctx, ps, pe, r) ==
    IF r.err # "none"
    THEN [ctx  |-> CallAll(ctx, <<Op("save", <<>>), Op("move_to", <<ps>>),
                                  Op("line_to", <<pe>>), Op("stroke", <<>>)>>),
          errs |-> {r.err}]
    ELSE [ctx  |-> CallAll(ctx, <<Op("save", <<>>), Op("move_to", <<ps>>),
                                  Op("line_to", <<pe>>), Op("stroke", <<>>)>>
                                  \o DimLineEnds(ps, pe, r.val,
                                                 ArrowTurns(ps, pe))),
          errs |-> {"none"}]

draw_dim_line(ctx, ps, pe) ==
    DimLineDrawn(ctx, ps, pe, DimLineAngle(ps, pe, SlopeAngle(ps, pe)))

\* the calls draw_dim_line makes on the canvas
dim_line(ps, pe) == draw_dim_line([ops |-> <<>>], ps, pe).ctx.ops

----------------------------------------------------------------------------
(* flange.py: Flange.draw, with the half cross sections and the profile.   *)
(* Angles handed to the canvas are in quarter degrees; the colours of      *)
(* Flange.colors are logged by their keys.                                 *)

bolt_hole_line_size == QFrac(3, 2)

\* Flange.draw_cross_section: the path from (hrd * rev, 0) through the
\* points (cdx * rev, -cdy), filled and outlined
draw_cross_section(rfr, hrd, frd, fth, rfh, rev) ==
    <<Op("save", <<>>),
      Op("move_to", <<QMul(hrd, rev), QOf(0)>>),
      Op("line_to", <<QMul(rfr, rev), QNeg(QOf(0))>>),
      Op("line_to", <<QMul(rfr, rev), QNeg(rfh)>>),
      Op("line_to", <<QMul(frd, rev), QNeg(rfh)>>),
      Op("line_to", <<QMul(frd, rev), QNeg(fth)>>),
      Op("line_to", <<QMul(hrd, rev), QNeg(fth)>>),
      Op("close_path", <<>>),
      Op("set_source_rgb", <<"section">>), Op("fill_preserve", <<>>),
      Op("set_source_rgb", <<"line">>), Op("stroke", <<>>),
      Op("restore", <<>>)>>

\* Faulty angles, which start on the edge of the half that is drawn
BoltHoleAngleFromEdge(nbs, i) == ((0 - pi) \div (nbs * 2)) * (i * 2)

\* ang of the bolt hole i: -pi / (nbs * 2) * (1 + i * 2)
BoltHoleAngle(nbs, i) == ((0 - pi) \div (nbs * 2)) * (1 + i * 2)

\* one turn of the loop of draw_profile over the bolt holes: the circle of
\* the hole centred at bhc, and its centre mark from ps to pe
BoltHole(bhc, ps, pe, bhr) ==
    <<Op("arc", <<bhc.x, bhc.y, bhr, 0, pi * 2>>),
      Op("set_source_rgb", <<1, 1, 1>>), Op("fill_preserve", <<>>),
      Op("set_source_rgb", <<"line">>),
      Op("move_to", <<ps.x, ps.y>>), Op("line_to", <<pe.x, pe.y>>),
      Op("stroke", <<>>)>>

\* for i in range(nbs), from the turn i on
RECURSIVE BoltHoles(_, _, _, _, _)
BoltHoles(i, nbs, bcr, bhr, hls) ==
    IF i >= nbs THEN <<>>
    ELSE BoltHole(ptoc(BoltHoleAngle(nbs, i), bcr, Origin),
                  ptoc(BoltHoleAngle(nbs, i), QSub(bcr, QMul(bhr, hls)),
                       Origin),
                  ptoc(BoltHoleAngle(nbs, i), QAdd(bcr, QMul(bhr, hls)),
                       Origin), bhr)
         \o BoltHoles(i + 1, nbs, bcr, bhr, hls)

\* Flange.draw_profile: the flange arcs, the bolt holes, then the bolt hole
\* circle arc in the dash style and the centre line; set_dash raises on a
\* dash style the canvas refuses
draw_profile(rfr, hrd, frd, bcr, bhr, nbs, dash_style) ==
    [ops  |-> <<Op("save", <<>>),
                Op("move_to", <<hrd, QOf(0)>>),
                Op("line_to", <<frd, QOf(0)>>),
                Op("arc", <<QOf(0), QOf(0), frd, 0, pi>>),
                Op("line_to", <<QNeg(hrd), QOf(0)>>),
                Op("arc_negative", <<QOf(0), QOf(0), hrd, pi, 0>>),
                Op("close_path", <<>>),
                Op("set_source_rgb", <<"arc">>), Op("fill_preserve", <<>>),
                Op("set_source_rgb", <<"line">>), Op("stroke", <<>>),
                Op("arc", <<QOf(0), QOf(0), rfr, 0, pi>>),
                Op("stroke", <<>>)>>
              \o BoltHoles(0, nbs, bcr, bhr, bolt_hole_line_size)
              \o (IF dash_style # <<>>
                  THEN <<Op("set_dash", dash_style)>> ELSE <<>>)
              \o (IF DashRefused(dash_style) THEN <<>>
                  ELSE <<Op("arc", <<QOf(0), QOf(0), bcr, 0, pi>>),
                         Op("stroke", <<>>),
                         Op("move_to", <<QOf(0), QOf(0)>>),
                         Op("line_to", <<QOf(0), hrd>>),
                         Op("stroke", <<>>),
                         Op("restore", <<>>)>>),
     errs |-> IF DashRefused(dash_style) THEN {"cairo.Error"} ELSE {"none"}]

\* Flange.draw, whose call of draw_profile handed back f; no dash style is
\* the empty one, and a flange drawn without its profile has the empty f
Flange_draw(self, ctx, cfp, angle, f) ==
    [ctx  |-> CallAll(ctx,
                 <<Op("save", <<>>),
                   Op("translate", <<cfp.x, cfp.y>>),
                   Op("rotate", <<0 - angle>>)>>
                 \o draw_cross_section(QFrac(self.raised_face_diameter, 2),
                                       QFrac(self.hole_diameter, 2),
                                       QFrac(self.flange_diameter, 2),
                                       QOf(self.flange_thickness),
                                       QOf(self.raised_face_height),
                                       QOf(-1))
                 \o draw_cross_section(QFrac(self.raised_face_diameter, 2),
                                       QFrac(self.hole_diameter, 2),
                                       QFrac(self.flange_diameter, 2),
                                       QOf(self.flange_thickness),
                                       QOf(self.raised_face_height),
                                       QOf(1))
                 \o f.ops
                 \o (IF f.errs = {"none"} THEN <<Op("restore", <<>>)>>
                     ELSE <<>>)),
     errs |-> f.errs]

----------------------------------------------------------------------------
(* pipe.py, pipebend.py, pipestraight.py: draw_component and the helpers   *)
(* it calls.  A helper is logged as its name, then the calls it makes on   *)
(* the canvas.                                                             *)

\* hasattr(self, "bend_arc"): b_arc is self.bend_arc, or 0 for a straight
BArc(self) == IF self.kind = "bend" THEN self.bend_arc.q ELSE 0

\* Pipe.draw_bend_profile
draw_bend_profile(self) ==
    <<Op("draw_bend_profile", <<>>), Op("save", <<>>),
      Op("translate", <<self.pc_pts.ctr[1].x, self.pc_pts.ctr[1].y>>),
      Op("arc", <<QOf(0), QOf(0), self.p_rad.li, 0, pi>>),
      Op("arc", <<QOf(0), QOf(0), self.p_rad.lo, 0, pi>>),
      Op("arc", <<QOf(0), QOf(0), self.p_rad.ci, 0, pi>>),
      Op("arc", <<QOf(0), QOf(0), self.p_rad.co, 0, pi>>),
      Op("stroke", <<>>), Op("restore", <<>>)>>

\* two extension lines, from po to eo and from pn to en, and the dimension
\* line from ps to pe
ExtensionLines(po, eo, pn, en, ps, pe) ==
    <<Op("move_to", <<po.x, po.y>>), Op("line_to", <<eo.x, eo.y>>),
      Op("move_to", <<pn.x, pn.y>>), Op("line_to", <<en.x, en.y>>),
      Op("stroke", <<>>)>>
    \o dim_line(ps, pe)

\* one pass of the loop of draw_rad_dims: point is the last point of the
\* "out" list and the first of the "in" list, and the dimension line runs
\* from pts["out"] to pts["in"]
RadDim(theta, dll, po, pn) ==
    ExtensionLines(po, ptoc(theta, dll, po), pn, ptoc(theta, dll, pn),
                   ptoc(theta, dll, po), ptoc(theta, dll, pn))

\* Pipe.draw_rad_dims
draw_rad_dims(self) ==
    <<Op("draw_rad_dims", <<>>), Op("save", <<>>)>>
    \o RadDim(BArc(self) + pi \div 2, QMul(self.dim_line_length, QOf(4)),
              self.pc_pts.out.co[Len(self.pc_pts.out.co)],
              self.pc_pts["in"].co[1])
    \o RadDim(BArc(self) + pi \div 2, QMul(self.dim_line_length, QOf(3)),
              self.pc_pts.out.ci[Len(self.pc_pts.out.ci)],
              self.pc_pts["in"].ci[1])
    \o RadDim(BArc(self) + pi \div 2, QMul(self.dim_line_length, QOf(2)),
              self.pc_pts.out.lo[Len(self.pc_pts.out.lo)],
              self.pc_pts["in"].lo[1])
    \o RadDim(BArc(self) + pi \div 2, QMul(self.dim_line_length, QOf(1)),
              self.pc_pts.out.li[Len(self.pc_pts.out.li)],
              self.pc_pts["in"].li[1])
    \o <<Op("restore", <<>>)>>

\* Pipe.draw_flanges once the first flange is drawn, which handed back a:
\* the second flange is drawn at the far end, turned, without its profile
FlangesDrawn(self, a) ==
    IF a.errs # {"none"} THEN a
    ELSE Flange_draw(self.flange, a.ctx,
                     self.pc_pts.ctr[Len(self.pc_pts.ctr)], BArc(self) + pi,
                     [ops |-> <<>>, errs |-> {"none"}])

\* Pipe.draw_flanges: the first flange is drawn with its profile, whose bolt
\* circle is dashed in the dash style of the component
draw_flanges(self, ctx) ==
    FlangesDrawn(self,
       Flange_draw(self.flange, Call(ctx, "draw_flanges", <<>>),
                   self.pc_pts.ctr[1], 0,
                   draw_profile(QFrac(self.flange.raised_face_diameter, 2),
                                QFrac(self.flange.hole_diameter, 2),
                                QFrac(self.flange.flange_diameter, 2),
                                QFrac(self.flange.bolt_circle_diameter, 2),
                                QFrac(self.flange.bolt_hole_diameter, 2),
                                self.flange.num_bolts \div 2,
                                self.dash_style)))

\* Pipe.draw_component
Pipe_draw_component(self, ctx) ==
    draw_flanges(self, CallAll(ctx, Layers(self)
                                      \o draw_bend_profile(self)
                                      \o draw_rad_dims(self)))

\* for pt1, pt2 in zip(pts_out[1:-1], pts_in[-2:0:-1]), on lists of n + 2
\* points: a move_to and a line_to for each pair
Ribs(pts_out, pts_in, n) ==
    [j \in 1..(2 * n) |->
        IF j % 2 = 1
        THEN Op("move_to", <<pts_out[(j + 1) \div 2 + 1].x,
                             pts_out[(j + 1) \div 2 + 1].y>>)
        ELSE Op("line_to", <<pts_in[n + 2 - j \div 2].x,
                             pts_in[n + 2 - j \div 2].y>>)]

\* PipeBend.draw_ribs
draw_ribs(self, comp) ==
    <<Op("draw_ribs", <<comp>>), Op("save", <<>>)>>
    \o Ribs(self.pc_pts.out[comp], self.pc_pts["in"][comp],
            Len(self.pc_pts.out[comp]) - 2)
    \o <<Op("stroke", <<>>), Op("restore", <<>>)>>

\* A faulty draw_center_arc, which does not restore the canvas
draw_center_arc_unrestored(self) ==
    <<Op("draw_center_arc", <<>>), Op("save", <<>>),
      Op("set_dash", self.dash_style),
      Op("arc", <<QOf(0), QOf(0), self.radii.nom,
                  pi * 2 - self.bend_arc.q, 0>>),
      Op("stroke", <<>>)>>

\* PipeBend.draw_center_arc
draw_center_arc(self) ==
    <<Op("draw_center_arc", <<>>), Op("save", <<>>),
      Op("set_dash", self.dash_style),
      Op("arc", <<QOf(0), QOf(0), self.radii.nom,
                  pi * 2 - self.bend_arc.q, 0>>),
      Op("stroke", <<>>), Op("restore", <<>>)>>

\* draw_arc_dims: the angle of the dimension line of the nominal radius
ArcDimAngle(b_arc, s_ang, num_segments) ==
    IF num_segments % 2 # 0 THEN b_arc \div 2 + s_ang \div 2
    ELSE b_arc \div 2

\* draw_arc_dims from rad /= 3 on, with rad the third and angle the angle of
\* the dimension line
ArcDims(self, b_arc, rad, angle) ==
    <<Op("arc", <<QOf(0), QOf(0), rad, pi * 2 - b_arc, 0>>),
      Op("stroke", <<>>)>>
    \o draw_arrowhead(Angle(QOf(0), b_arc + pi \div 2),
                      ptoc(b_arc, rad, Origin))
    \o draw_arrowhead(Angle(QOf(0), (pi * 3) \div 2), ptoc(0, rad, Origin))
    \o draw_dim_label(ptoc(b_arc \div 2, rad, Origin))
    \o <<Op("move_to", <<ptoc(angle, QMul(rad, QOf(2)), Origin).x,
                         ptoc(angle, QMul(rad, QOf(2)), Origin).y>>),
         Op("line_to", <<ptoc(angle, self.radii.nom, Origin).x,
                         ptoc(angle, self.radii.nom, Origin).y>>),
         Op("stroke", <<>>)>>
    \o draw_arrowhead(Angle(QOf(0), angle),
                      ptoc(angle, self.radii.nom, Origin))
    \o draw_dim_label(ptoc(angle, QMul(rad, QOf(2)), Origin))

\* PipeBend.draw_arc_dims, with rad = self.radii["inner"]["fo"] * 0.95
ArcDimsOf(self, b_arc, rad) ==
    <<Op("draw_arc_dims", <<>>), Op("save", <<>>),
      Op("move_to", <<ptoc(b_arc, rad, Origin).x,
                      ptoc(b_arc, rad, Origin).y>>),
      Op("line_to", <<QOf(0), QOf(0)>>),
      Op("line_to", <<rad, QOf(0)>>),
      Op("stroke", <<>>)>>
    \o ArcDims(self, b_arc, QDiv(rad, QOf(3)),
               ArcDimAngle(b_arc, self.segment_angle.q, self.num_segments))
    \o <<Op("restore", <<>>)>>

draw_arc_dims(self) ==
    ArcDimsOf(self, self.bend_arc.q,
              QMul(self.radii.inner.fo, QFrac(95, 100)))

\* one pass of a loop of draw_seg_dims: the extension lines of length lnl at
\* the angle theta from the points idx and idx + 1 of pts (counted from 0),
\* and the dimension line from pts[1] to pts[0]
SegDim_lines(pts, idx, theta, lnl) ==
    ExtensionLines(pts[idx + 1], ptoc(theta, lnl, pts[idx + 1]),
                   pts[idx + 2], ptoc(theta, lnl, pts[idx + 2]),
                   ptoc(theta, lnl, pts[idx + 2]),
                   ptoc(theta, lnl, pts[idx + 1]))

\* A faulty intrados index
IntradosIndexNext(segs) == segs \div 2 + 2

\* idx[0] of the intrados: idx[0] of the extrados, += 1 - (segs % 2)
IntradosIndex(segs) == segs \div 2 + (segs % 2) + 1 - (segs % 2)

\* the body of "if segs >= 3" in draw_seg_dims; ex and ins are idx[0] in its
\* two loops, and the casing is left out of a one piece bend
SegDims(self, segs, s_ang, cld, ddll, ex, ins) ==
    (IF self.casing_type = "onepiece" THEN <<>>
     ELSE SegDim_lines(self.pc_pts.out.co, ex, s_ang * ex,
                       QMul(ddll, QFrac(17, 10))))
    \o SegDim_lines(self.pc_pts.out.lo, ex, s_ang * ex,
                    QAdd(cld, QMul(ddll, QFrac(7, 10))))
    \o (IF self.casing_type = "onepiece" THEN <<>>
        ELSE SegDim_lines(self.pc_pts["in"].co, ins,
                          s_ang * (ins - 2 + (segs % 2)) + pi,
                          QMul(ddll, QFrac(7, 10))))
    \o SegDim_lines(self.pc_pts["in"].lo, ins,
                    s_ang * (ins - 2 + (segs % 2)) + pi,
                    QAdd(cld, QMul(ddll,
                                   IF self.casing_type = "onepiece"
                                   THEN QFrac(7, 10) ELSE QFrac(17, 10))))

\* PipeBend.draw_seg_dims
draw_seg_dims(self) ==
    <<Op("draw_seg_dims", <<>>), Op("save", <<>>)>>
    \o (IF self.num_segments >= 3
        THEN SegDims(self, self.num_segments, self.segment_angle.q,
                     QSub(self.p_rad.co, self.p_rad.lo),
                     self.dos_dim_line_length,
                     self.num_segments \div 2 + (self.num_segments % 2),
                     IntradosIndex(self.num_segments))
        ELSE <<>>)
    \o <<Op("restore", <<>>)>>

\* Pipe.draw_center_line: the line through self.pc_pts["ctr"]
draw_center_line(self) ==
    <<Op("draw_center_line", <<>>), Op("save", <<>>),
      Op("set_dash", self.dash_style),
      Op("move_to", <<self.pc_pts.ctr[1].x, self.pc_pts.ctr[1].y>>)>>
    \o [i \in 1..(Len(self.pc_pts.ctr) - 1) |->
          Op("line_to", <<self.pc_pts.ctr[i + 1].x,
                          self.pc_pts.ctr[i + 1].y>>)]
    \o <<Op("stroke", <<>>), Op("restore", <<>>)>>

\* PipeStraight.draw_len_dim, with x the abscissas of the bounding lines
\* and of the dimension line
LenDim(self, x0, x1, xc) ==
    <<Op("draw_len_dim", <<>>), Op("save", <<>>),
      Op("move_to", <<x0, self.pc_pts.ctr[1].y>>),
      Op("line_to", <<x1, self.pc_pts.ctr[1].y>>), Op("stroke", <<>>),
      Op("move_to", <<x0, self.pc_pts.ctr[2].y>>),
      Op("line_to", <<x1, self.pc_pts.ctr[2].y>>), Op("stroke", <<>>)>>
    \o dim_line(Point(xc, self.pc_pts.ctr[1].y),
                Point(xc, self.pc_pts.ctr[2].y))
    \o <<Op("restore", <<>>)>>

\* PipeStraight.draw_len_dim: lem = lom + lwm, lcm = lom + lwm / 2
draw_len_dim(self) ==
    LenDim(self,
           QAdd(self.p_rad.fo,
                QMul(self.len_dim_line_length,
                     QOf(self.len_dim_line_length_offset_m))),
           QAdd(self.p_rad.fo,
                QMul(self.len_dim_line_length,
                     QOf(self.len_dim_line_length_offset_m
                         + self.len_dim_line_length_width_m))),
           QAdd(self.p_rad.fo,
                QMul(self.len_dim_line_length,
                     QOf(self.len_dim_line_length_offset_m
                         + self.len_dim_line_length_width_m \div 2))))

\* PipeBend.draw_component and PipeStraight.draw_component after
\* Pipe.draw_component, which handed back r
DrawnPipe(self, r) ==
    IF r.errs # {"none"} THEN r
    ELSE [ctx  |-> CallAll(r.ctx,
                     IF self.kind = "bend"
                     THEN draw_ribs(self, "li")
                          \o draw_center_arc(self)
                          \o draw_arc_dims(self)
                          \o (IF self.ex_dim_drg THEN draw_seg_dims(self)
                              ELSE <<>>)
                     ELSE draw_center_line(self) \o draw_len_dim(self)),
          errs |-> {"none"}]

\* PipeBend.draw_component and PipeStraight.draw_component
draw_component(self, ctx) ==
    DrawnPipe(self, Pipe_draw_component(
                       self, Call(ctx, "draw_component", <<>>)))

\* DrawnComponent.draw after self.draw_component, which handed back d
DrawDone(self, d) ==
    IF d.errs # {"none"}
    THEN [self |-> self, ctx |-> d.ctx, ret |-> None, errs |-> d.errs]
    ELSE [self |-> self, ctx |-> Call(d.ctx, "restore", <<>>),
          ret  |-> self.scale, errs |-> {"none"}]

\* DrawnComponent.draw after self.set_scale, which handed back r
DrawScaled(r) ==
    IF r.errs # {"none"}
    THEN [self |-> r.self, ctx |-> r.ctx, ret |-> None, errs |-> r.errs]
    ELSE DrawDone(r.self,
                  draw_component(r.self,
                    CallAll(r.ctx,
                      <<Op("set_source_rgb", <<0, 0, 0>>),
                        Op("set_line_width",
                           <<r.self.drawing_line_width>>)>>)))

\* DrawnComponent.draw: what it leaves of the component and the canvas, what
\* it returns, and the errors it can end with
draw(self, ctx, page_w, page_h) ==
    DrawScaled(set_scale(self,
                         draw_pre_scale(self,
                                        CallAll(ctx, <<Op("draw", <<>>),
                                                       Op("save", <<>>)>>),
                                        page_w, page_h),
                         page_w, page_h))

\* the number of times draw was called with the canvas whose log is ops
DrawCount(ops) == Cardinality({i \in 1..Len(ops) : ops[i].op = "draw"})

----------------------------------------------------------------------------
(* cgi/jc.py: the checks of main() on the numbers of a job.                *)

\* inputs: casingod, casingid, liningod, liningid, then nomrad or length
ValidCore(inputs) ==
    /\ \A i \in 1..Len(inputs) : inputs[i] > 0
    /\ \A i \in 1..3 : inputs[i] > inputs[i + 1]

\* bend angle in degrees, segment angle in hundredths of a degree
ValidAngles(bendangle, segangle) ==
    /\ segangle > 0
    /\ 0 < bendangle /\ bendangle <= 90
    /\ (bendangle * 100)
         % FRoundInt(FMul(FloatOfCenti(segangle), FloatOfInt(100))) = 0

\* A faulty list of main(), which lets a designation through that the
\* catalogue does not hold
flanges_and_one_more ==
    <<"100PN16", "125PN16", "150PN16", "200PN16",
      "250PN16", "300PN16", "400PN16", "999PN16">>

\* flanges of main()
flanges ==
    <<"100PN16", "125PN16", "150PN16", "200PN16",
      "250PN16", "300PN16", "400PN16">>

\* validate_form_option: form.getvalue gives None for a field the form does
\* not have, and html_fail ends the program with sys.exit
validate_form_option(form, field, allowed_values) ==
    IF field \notin DOMAIN form THEN Raised("SystemExit")
    ELSE IF \A i \in 1..Len(allowed_values) :
               allowed_values[i] # form[field]
         THEN Raised("SystemExit")
    ELSE Returned(form[field])

jobtypes == <<"pipebend", "pipestraight">>

ctypes == <<"onepiece", "segmented">>

otypes == <<"pdf", "svg", "png">>

osizes == <<"A4", "Letter">>

\* inputs of main(): the numbers of the fields pfields, then bfields or
\* sfields; segangle is the decimal text of the field, in thousandths
CoreInputs(f) ==
    <<f.casingod, f.casingid, f.liningod, f.liningid>>
    \o (IF f.jobtype = "pipebend"
        THEN <<f.nomrad, f.bendangle, f.segangle>>
        ELSE <<f.length>>)

\* float(fstr) of a decimal text of t thousandths, correctly rounded
FloatOfMilli(t) == FDiv(FloatOfInt(t), FloatOfInt(1000))

\* the checks of main() on the angles of a bend, given round(inputs[6] *
\* 100) as r: html_fail ends the program with sys.exit, and the float
\* modulo raises for a zero divisor
AngleCheck(bendangle, r) ==
    IF ~(0 < bendangle /\ bendangle <= 90) THEN "SystemExit"
    ELSE IF r = 0 THEN "ZeroDivisionError"
    ELSE IF (bendangle * 100) % r # 0 THEN "SystemExit"
    ELSE "none"

\* A faulty check, which lets a layer be as wide as the one around it
CoreErrorNotStrict(inputs) ==
    IF /\ \A i \in 1..Len(inputs) : inputs[i] > 0
       /\ \A i \in 1..3 : inputs[i] >= inputs[i + 1]
    THEN "none" ELSE "SystemExit"

\* the checks of main() on inputs
CoreError(inputs) == IF ValidCore(inputs) THEN "none" ELSE "SystemExit"

\* the first of the errors es that is one
FirstError(es) ==
    IF \A i \in 1..Len(es) : es[i] = "none" THEN "none"
    ELSE es[CHOOSE i \in 1..Len(es) :
               es[i] # "none" /\ \A j \in 1..(i - 1) : es[j] = "none"]

\* main() up to the construction of the job, on a form f that has the field
\* jobtype and numbers in its number fields: the error that ends it
main(f) ==
    IF validate_form_option(f, "jobtype", jobtypes).err # "none"
    THEN "SystemExit"
    ELSE FirstError(
           <<CoreError(CoreInputs(f))>>
           \o (IF f.jobtype = "pipebend"
               THEN <<IF CoreError(CoreInputs(f)) = "none"
                      THEN AngleCheck(f.bendangle,
                                      FRoundInt(FMul(FloatOfMilli(f.segangle),
                                                     FloatOfInt(100))))
                      ELSE "none",
                      validate_form_option(f, "casing", ctypes).err>>
               ELSE <<>>)
           \o <<validate_form_option(f, "output", otypes).err,
                validate_form_option(f, "flange", flanges).err,
                validate_form_option(f, "outputsize", osizes).err>>)

\* the job that main() constructs from a form that passed its checks
Job(f) ==
    IF f.jobtype = "pipebend"
    THEN PipeBend(f.nomrad, f.casingod, f.casingid, f.liningod, f.liningid,
                  f.bendangle, f.segangle \div 10, f.casing, f.flange,
                  "drg" \in f.segdim, "box" \in f.segdim)
    ELSE PipeStraight(f.length, f.casingod, f.casingid, f.liningod,
                      f.liningid, f.flange)

----------------------------------------------------------------------------
(* The state machine: a flange or a pipe is constructed from the fields of *)
(* a request and drawn on a canvas, a pipe up to MaxDraws times; or a      *)
(* dimension line is drawn by itself; or main() is run on a form.          *)
(*   pc    where the program is: "start", "constructed", "drawn",          *)
(*         "validated" once main() has let a form through that is not      *)
(*         constructed here, or "raised" once an exception has ended it    *)
(*   form  the fields of the request the component is constructed from,    *)
(*         or the endpoints of the dimension line                          *)
(*   self  the component (None until it is constructed)                    *)
(*   ctx   the canvas: its font and the calls made on it                   *)
(*   page  the drawing area handed to draw                                 *)
(*   ret   what draw returned                                              *)
(*   err   the exception raised, "none" if none                            *)
(*   Flange_dims  the catalogue of the class Flange (declared above)       *)
(* Two pipes that live in one interpreter are kept apart from these: see   *)
(* heap, models and frame below.                                           *)

VARIABLES pc, form, self, ctx, page, ret, err

\* the objects of the interpreter, by address; the addresses of the pipes
\* constructed in it; and, for each of these pipes, the call of draw on it
VARIABLES heap, models, frame

pairvars == <<heap, models, frame>>

vars == <<pc, form, self, ctx, page, ret, err, Flange_dims, pairvars>>

\* the inputs explored
MaxSegments == 6

\* the number of times a component is drawn
MaxDraws == 2

\* a font: the advance of a character and the height of a line, per unit of
\* font size
Fonts == {[adv |-> QFrac(1, 2), cap |-> QFrac(3, 4)]}

\* casingod, casingid, liningod, liningid
Diameters == {<<220, 200, 180, 160>>}

NomRads == {50, 500}

BendAngles == {9, 60, 90}

\* hundredths of a degree
SegAngles == {150, 300, 1000, 1500, 2250, 3000, 4500, 9000}

Lengths == {300, 30000}

FlangeNames == {"150PN16", "999PN16"}

\* casing, exdimdrg, exdimbox
BendOptions ==
    {<<"segmented", TRUE, TRUE>>, <<"onepiece", FALSE, TRUE>>,
     <<"segmented", FALSE, FALSE>>}

\* the forms main() is run on: bends and straights with layers that are and
\* are not nested, numbers that are and are not positive, and segment
\* angles (in thousandths of a degree) that do and do not divide the bend
\* angle
MainForms ==
    {[jobtype |-> "pipebend",
      casingod |-> d[1], casingid |-> d[2], liningod |-> d[3],
      liningid |-> d[4], nomrad |-> n, bendangle |-> b, segangle |-> t,
      casing |-> o[1], flange |-> o[2], segdim |-> o[3],
      output |-> "pdf", outputsize |-> "A4"] :
        d \in {<<220, 200, 180, 160>>, <<220, 200, 200, 160>>,
               <<220, 200, 180, 0>>},
        n \in {0, 50, 500}, b \in {0, 9, 60, 91},
        t \in {4, 1500, 2999, 3000, 18000},
        o \in {<<"segmented", "150PN16", {"drg"}>>,
               <<"rolled", "150PN16", {}>>,
               <<"onepiece", "999PN16", {"box"}>>}}
    \cup
    {[jobtype |-> j,
      casingod |-> d[1], casingid |-> d[2], liningod |-> d[3],
      liningid |-> d[4], length |-> l, flange |-> "150PN16",
      output |-> o, outputsize |-> "A4"] :
        j \in {"pipestraight", "elbow"},
        d \in {<<220, 200, 180, 160>>, <<200, 220, 180, 160>>},
        l \in {-300, 0, 300}, o \in {"pdf", "ps"}}

PageWidths == {72, 476}

PageHeights == {48, 600}

\* the coordinates of the endpoints of a dimension line
DimCoords == {-1, 0, 2}

Init ==
    /\ pc = "start"
    /\ form = None
    /\ self = None
    /\ ctx \in {[font |-> f, ops |-> <<>>] : f \in Fonts}
    /\ page = None
    /\ ret = None
    /\ err = "none"
    /\ Flange_dims = dims
    /\ heap = <<>>
    /\ models = <<>>
    /\ frame = <<>>

\* a constructor was called on the fields f, and returned or raised r
Constructed(f, r) ==
    /\ form' = f
    /\ self' = r.val
    /\ err' = r.err
    /\ pc' = IF r.err = "none" THEN "constructed" ELSE "raised"
    /\ UNCHANGED <<ctx, page, ret, Flange_dims, pairvars>>

\* Flange(name)
NewFlange ==
    /\ pc = "start"
    /\ \E flange \in DOMAIN dims \cup FlangeNames :
          \E r \in {Flange(flange)} :
             Constructed([jobtype |-> "flange", flange |-> flange], r)

\* PipeBend(...) on numbers that main() lets through
NewPipeBend ==
    /\ pc = "start"
    /\ \E d \in Diameters, nomrad \in NomRads, bendangle \in BendAngles,
          segangle \in SegAngles, o \in BendOptions, flange \in FlangeNames :
          /\ ValidCore(d \o <<nomrad>>)
          /\ ValidAngles(bendangle, segangle)
          /\ bendangle * 100 <= MaxSegments * segangle
          /\ \E r \in {PipeBend(nomrad, d[1], d[2], d[3], d[4], bendangle,
                                segangle, o[1], flange, o[2], o[3])} :
                Constructed([jobtype   |-> "pipebend",
                             casingod  |-> d[1], casingid  |-> d[2],
                             liningod  |-> d[3], liningid  |-> d[4],
                             nomrad    |-> nomrad,
                             bendangle |-> bendangle,
                             segangle  |-> segangle,
                             casing    |-> o[1],
                             exdimdrg  |-> o[2], exdimbox  |-> o[3],
                             flange    |-> flange], r)

\* PipeStraight(...) on numbers that main() lets through
NewPipeStraight ==
    /\ pc = "start"
    /\ \E d \in Diameters, length \in Lengths, flange \in FlangeNames :
          /\ ValidCore(d \o <<length>>)
          /\ \E r \in {PipeStraight(length, d[1], d[2], d[3], d[4],
                                    flange)} :
                Constructed([jobtype  |-> "pipestraight",
                             casingod |-> d[1], casingid |-> d[2],
                             liningod |-> d[3], liningid |-> d[4],
                             length   |-> length,
                             flange   |-> flange], r)

\* main() of jc.py, from the reading of the form to the construction of the
\* job.  The constructor of a bend is modelled for the segment angles of
\* the trigonometric table (whole quarter degrees) and for at most
\* MaxSegments segments: for another segment angle that passes the checks
\* the program is left at the call of the constructor ("validated").
Main ==
    /\ pc = "start"
    /\ \E f \in MainForms :
          /\ form' = [jobtype |-> "main", fields |-> f]
          /\ UNCHANGED <<ctx, page, ret, Flange_dims, pairvars>>
          /\ \E e \in {main(f)} :
                IF e # "none"
                THEN /\ err' = e
                     /\ pc' = "raised"
                     /\ self' = None
                ELSE IF /\ f.jobtype = "pipebend"
                        /\ \/ f.segangle % 250 # 0
                           \/ f.bendangle * 1000 > MaxSegments * f.segangle
                THEN /\ err' = "none"
                     /\ pc' = "validated"
                     /\ self' = None
                ELSE \E r \in {Job(f)} :
                        /\ self' = r.val
                        /\ err' = r.err
                        /\ pc' = IF r.err = "none" THEN "constructed"
                                 ELSE "raised"

\* draw_dim_line(ctx, ps, pe, ...)
DrawDimLine ==
    /\ pc = "start"
    /\ \E x1 \in DimCoords, y1 \in DimCoords, x2 \in DimCoords,
          y2 \in DimCoords :
          \E r \in {draw_dim_line(ctx, Point(QOf(x1), QOf(y1)),
                                   Point(QOf(x2), QOf(y2)))} :
             /\ form' = [jobtype |-> "dimline",
                         ps |-> Point(QOf(x1), QOf(y1)),
                         pe |-> Point(QOf(x2), QOf(y2))]
             /\ ctx' = r.ctx
             /\ UNCHANGED <<self, page, ret, Flange_dims, pairvars>>
             /\ \E e \in r.errs :
                   /\ err' = e
                   /\ pc' = IF e = "none" THEN "drawn" ELSE "raised"

\* flange.draw(ctx, cfp, angle, profile, dash_style), as Pipe.draw_flanges
\* calls it: upright or turned by a bend arc and pi (quarter degrees), with
\* no dash style, with that of a component, or with one that a negative
\* scale has divided
DrawFlange ==
    /\ pc = "constructed"
    /\ form.jobtype = "flange"
    /\ \E angle \in {0, pi + 360}, profile \in BOOLEAN,
          dash_style \in {<<>>, <<QOf(7), QOf(2), QOf(2), QOf(2)>>,
                          <<QOf(-7), QOf(-2), QOf(-2), QOf(-2)>>} :
          \E r \in {Flange_draw(
                      self, ctx, Origin, angle,
                      IF profile
                      THEN draw_profile(
                              QFrac(self.raised_face_diameter, 2),
                              QFrac(self.hole_diameter, 2),
                              QFrac(self.flange_diameter, 2),
                              QFrac(self.bolt_circle_diameter, 2),
                              QFrac(self.bolt_hole_diameter, 2),
                              self.num_bolts \div 2, dash_style)
                      ELSE [ops |-> <<>>, errs |-> {"none"}])} :
             /\ ctx' = r.ctx
             /\ UNCHANGED <<form, self, page, ret, Flange_dims, pairvars>>
             /\ \E e \in r.errs :
                   /\ err' = e
                   /\ pc' = IF e = "none" THEN "drawn" ELSE "raised"

\* component.draw(ctx, page_w, page_h), as DrawingPage.draw_component calls
\* it; a component that was drawn is drawn again on the same drawing area
Draw ==
    /\ pc \in {"constructed", "drawn"}
    /\ form.jobtype \in {"pipebend", "pipestraight"}
    /\ DrawCount(ctx.ops) < MaxDraws
    /\ \E w \in PageWidths, h \in PageHeights :
          /\ page # None => (w = page.page_w /\ h = page.page_h)
          /\ \E r \in {draw(self, ctx, QOf(w), QOf(h))} :
             /\ self' = r.self
             /\ ctx' = r.ctx
             /\ ret' = r.ret
             /\ page' = [page_w |-> w, page_h |-> h]
             /\ UNCHANGED <<form, Flange_dims, pairvars>>
             /\ \E e \in r.errs :
                   /\ err' = e
                   /\ pc' = IF e = "none" THEN "drawn" ELSE "raised"

Next ==
    \/ NewFlange \/ NewPipeBend \/ NewPipeStraight \/ Draw
    \/ DrawDimLine \/ DrawFlange \/ Main

Spec == Init /\ [][Next]_vars

----------------------------------------------------------------------------
(* Two pipes in one interpreter.  An attribute that holds a list or a      *)
(* dictionary holds its address, and set_scale divides the entries of the  *)
(* object at that address in place.  A call of draw is taken in two steps, *)
(* up to the end of set_scale and from there on, and the steps of the two  *)
(* calls are interleaved in every order.                                   *)

\* A faulty constructor, with dash_style an attribute of the class: every
\* instance holds the address of the one list
New_class_dash_style(h, v) ==
    h \o <<[v EXCEPT !.dash_style = 2, !.text = Len(h) + 3,
                     !.pc_pts = Len(h) + 4],
           v.dash_style, v.text, v.pc_pts>>

\* the instance v as its constructors leave it on the heap h: the list, the
\* dictionary of TextInfo objects and the point lists are made by the
\* constructors, so they are new objects
New(h, v) ==
    h \o <<[v EXCEPT !.dash_style = Len(h) + 2, !.text = Len(h) + 3,
                     !.pc_pts = Len(h) + 4],
           v.dash_style, v.text, v.pc_pts>>

\* the instance at address a, read through its attributes
Deref(h, a) ==
    [h[a] EXCEPT !.dash_style = h[@], !.text = h[@], !.pc_pts = h[@]]

\* the heap once the instance at address a was left as v: numbers are bound
\* to the attributes again, lists and dictionaries are changed in place
Store(h, a, v) ==
    [h EXCEPT ![a] = [v EXCEPT !.dash_style = h[a].dash_style,
                               !.text = h[a].text,
                               !.pc_pts = h[a].pc_pts],
              ![h[a].dash_style] = v.dash_style,
              ![h[a].text] = v.text,
              ![h[a].pc_pts] = v.pc_pts]

\* the pipes constructed side by side
PairModels ==
    {PipeBend(500, 220, 200, 180, 160, 60, 1500, "segmented", "150PN16",
              TRUE, TRUE).val,
     PipeStraight(300, 220, 200, 180, 160, "150PN16").val}

\* a pipe is constructed
NewModel ==
    /\ Len(models) < 2
    /\ \E v \in PairModels, f \in Fonts :
          /\ heap' = New(heap, v)
          /\ models' = Append(models, Len(heap) + 1)
          /\ frame' = Append(frame, [pc |-> "constructed", n |-> 0,
                                     ctx |-> [font |-> f, ops |-> <<>>],
                                     errs |-> {"none"}, page |-> None,
                                     ret |-> None, err |-> "none"])
    /\ UNCHANGED <<pc, form, self, ctx, page, ret, err, Flange_dims>>

\* draw on the i-th pipe, up to the end of self.set_scale
SetScaleOf(i) ==
    /\ frame[i].pc \in {"constructed", "drawn"}
    /\ frame[i].n < MaxDraws
    /\ \E w \in PageWidths, h \in PageHeights :
          /\ frame[i].page # None =>
                (w = frame[i].page.page_w /\ h = frame[i].page.page_h)
          /\ \E r \in {set_scale(Deref(heap, models[i]),
                                 draw_pre_scale(Deref(heap, models[i]),
                                    CallAll(frame[i].ctx,
                                            <<Op("draw", <<>>),
                                              Op("save", <<>>)>>),
                                    QOf(w), QOf(h)),
                                 QOf(w), QOf(h))} :
                /\ heap' = Store(heap, models[i], r.self)
                /\ frame' = [frame EXCEPT ![i] =
                               [@ EXCEPT !.pc = "scaling", !.n = @ + 1,
                                         !.ctx = r.ctx, !.errs = r.errs,
                                         !.page = [page_w |-> w,
                                                   page_h |-> h]]]
    /\ UNCHANGED <<models, pc, form, self, ctx, page, ret, err, Flange_dims>>

\* draw on the i-th pipe, from the end of self.set_scale to its return
DrawScaledOf(i) ==
    /\ frame[i].pc = "scaling"
    /\ \E r \in {DrawScaled([self |-> Deref(heap, models[i]),
                             ctx  |-> frame[i].ctx,
                             errs |-> frame[i].errs])} :
          /\ heap' = Store(heap, models[i], r.self)
          /\ \E e \in r.errs :
                frame' = [frame EXCEPT ![i] =
                            [@ EXCEPT !.pc = IF e = "none" THEN "drawn"
                                             ELSE "raised",
                                      !.ctx = r.ctx, !.errs = {e},
                                      !.ret = r.ret, !.err = e]]
    /\ UNCHANGED <<models, pc, form, self, ctx, page, ret, err, Flange_dims>>

NextPair ==
    \/ NewModel
    \/ \E i \in DOMAIN models : SetScaleOf(i)
    \/ \E i \in DOMAIN models : DrawScaledOf(i)

SpecPair == Init /\ [][NextPair]_vars

----------------------------------------------------------------------------
(* Properties of two pipes in one interpreter.                             *)

\* the i-th call of draw took a step
Stepped(i) == i \in DOMAIN frame /\ frame'[i] # frame[i]

\* C26: the style state is kept per instance.  Whatever the order of the
\* steps of the draws on two pipes, a step of the draw on one pipe leaves
\* every attribute of the other pipe as it was: its scale, its
\* drawing_line_width, the entries of its dash_style, the size and padding
\* of its texts, its dim_line_length and the points of its pc_pts.
C26_StylePerInstance ==
    [][\A i \in DOMAIN models, j \in DOMAIN models :
          (i # j /\ Stepped(i)) =>
             Deref(heap', models[j]) = Deref(heap, models[j])]_vars

\* both draws are between set_scale and draw_component at once, and each
\* pipe has the scale of its own draw
C26_Witness ==
    /\ Len(models) = 2
    /\ frame[1].pc = "scaling" /\ frame[2].pc = "scaling"
    /\ frame[1].n = 2
    /\ Deref(heap, models[1]).scale # Deref(heap, models[2]).scale
    /\ Deref(heap, models[1]).dash_style # Deref(heap, models[2]).dash_style

----------------------------------------------------------------------------
(* Properties of PipeBend.__init__ and get_segment_points.                 *)

\* a bend has been constructed
BendMade == self # None /\ form.jobtype = "pipebend"

\* every point list get_segment_points returned to PipeBend.__init__, in the
\* order it was returned in, with the radius it was called with
BendLayers ==
    {[pts |-> self.pc_pts.out[k], rad |-> self.radii.outer[k]] :
        k \in {"co", "ci", "lo", "li"}}
    \cup {[pts |-> Reverse(self.pc_pts["in"][k]), rad |-> self.radii.inner[k]] :
            k \in {"co", "ci", "lo", "li"}}
    \cup {[pts |-> self.pc_pts.ctr, rad |-> self.radii.nom]}

\* C1: for every valid bend, num_segments is a positive integer equal to
\* bendAngle / segmentAngle exactly, and each of the eight layer boundaries
\* and the centerline has num_segments + 2 points.
C1_SegmentCountExact ==
    BendMade =>
       /\ self.num_segments > 0
       /\ self.num_segments * form.segangle = form.bendangle * 100
       /\ Cardinality(BendLayers) = 9
       /\ \A l \in BendLayers : Len(l.pts) = self.num_segments + 2

\* pt lies at distance r from the origin at angle theta, in the orientation
\* of ptoc: angles grow counter-clockwise and y grows downwards
AtPolar(pt, r, theta) ==
    /\ ~r.neg
    /\ QEq(pt.x, QMul(r, cos(theta)))
    /\ QEq(pt.y, QNeg(QMul(r, sin(theta))))

\* the points of one layer lie where C2 says: s_ang and b_arc are the
\* segment angle and the bend angle in quarter degrees
OnLayer(pts, rad, s_ang, b_arc) ==
    /\ AtPolar(pts[1], rad, 0)
    /\ AtPolar(pts[Len(pts)], rad, b_arc)
    /\ \A i \in 0..(Len(pts) - 3) :
          AtPolar(pts[i + 2], QDiv(rad, cos(s_ang \div 2)),
                  (s_ang * (2 * i + 1)) \div 2)

\* C2: for every layer radius R passed to get_segment_points, the first and
\* the last point lie at distance exactly R from the origin, at the angles 0
\* and the bend angle, and point i between them lies at the angle
\* segmentAngle * (i + 0.5) at distance R / cos(segmentAngle / 2).
C2_VerticesOnLayer ==
    BendMade =>
       \A l \in BendLayers :
          OnLayer(l.pts, l.rad, form.segangle \div 25, 4 * form.bendangle)

\* pt is not the origin and lies on the line through the origin at the angle
\* theta
OnRay(pt, theta) ==
    /\ ~(QIsZero(pt.x) /\ QIsZero(pt.y))
    /\ QIsZero(QAdd(QMul(pt.x, sin(theta)), QMul(pt.y, cos(theta))))

\* a vertex of pts lies on the bisector of the bend
HasBisectorVertex(pts) ==
    \E i \in 1..Len(pts) : OnRay(pts[i], 2 * form.bendangle)

----------------------------------------------------------------------------
(* Properties of set_scale.  They hold of a component once draw has called *)
(* set_scale on it, and measure the labels with the text sizes of          *)
(* construction, as set_scale did.                                         *)

\* draw has been called once on a bend, on a straight
BendScaleSet ==
    page # None /\ form.jobtype = "pipebend" /\ DrawCount(ctx.ops) = 1
StraightScaleSet ==
    page # None /\ form.jobtype = "pipestraight" /\ DrawCount(ctx.ops) = 1

\* rdm of PipeBend.set_scale: four times the padded width of the widest
\* diameter label
BendRdm ==
    QMul(get_largest_text_width(ctx.font, RadValues(self),
                                DrawnComponent.text.dims, TRUE), QOf(4))

\* rdm of PipeStraight.set_scale: four times the padded height of the
\* tallest diameter label
StraightRdm ==
    QMul(get_largest_text_height(ctx.font, RadValues(self),
                                 DrawnComponent.text.dims, TRUE), QOf(4))

\* ldm of PipeStraight.set_scale: three times the padded width of the
\* length label
StraightLdm ==
    QMul(get_largest_text_width(ctx.font, <<IntLabelLen(form.length)>>,
                                DrawnComponent.text.dims, TRUE), QOf(3))

\* the scale set_scale solves for this component on a page of w by h
SolvedScale(w, h) ==
    IF form.jobtype = "pipebend"
    THEN BendScale(self, QOf(w), QOf(h), BendRdm)
    ELSE StraightScale(self, QOf(w), QOf(h), StraightLdm, StraightRdm)

\* C4: for a fixed straight or bend and fixed text metrics, the scale solved
\* for a page that is at least as wide and at least as high is at least as
\* large.
C4_ScaleMonotone ==
    (BendScaleSet \/ StraightScaleSet) =>
       \A w \in PageWidths, h \in PageHeights :
          (w >= page.page_w /\ h >= page.page_h)
             => QLe(self.scale, SolvedScale(w, h))

\* a bend was drawn on the smallest page with a scale that a larger page
\* makes strictly larger
C4_Witness ==
    /\ BendScaleSet
    /\ pc = "drawn"
    /\ page.page_w = 72 /\ page.page_h = 48
    /\ QLt(self.scale, SolvedScale(476, 600))

\* s is the least of the candidates cs
IsMin(s, cs) == (\E c \in cs : QEq(s, c)) /\ (\A c \in cs : QLe(s, c))

\* The four candidates of C5 for the bend of the request on the page, from
\* the bend flange radius bfr, the flange radius flr, the inner and outer
\* radius of the casing, the bend angle b in quarter degrees, and rdm.
BendCandidates(bfr, flr, cri, cro, b, rdm, page_w, page_h) ==
    {QDiv(page_w, bfr),
     QDiv(QSub(page_w, QMul(sin(b), rdm)), QSub(bfr, QMul(cos(b), cri))),
     QDiv(page_h, QAdd(QMul(sin(b), bfr), flr)),
     QDiv(QSub(page_h, QMul(cos(b), rdm)), QAdd(QMul(sin(b), cro), flr))}

\* C5: PipeBend.set_scale sets scale to the minimum of page_w / bfr,
\* (page_w - dm_w) / ang_w, page_h / rad_h and (page_h - dm_h) / ang_h, with
\* bfr = nomrad + flangeOD / 2, ang_w = bfr - cos(b) * casingInnerRadius,
\* rad_h = sin(b) * bfr + flangeOD / 2,
\* ang_h = sin(b) * casingOuterRadius + flangeOD / 2, dm_w = sin(b) * rdm,
\* dm_h = cos(b) * rdm, and rdm four times the padded width of the widest
\* diameter label.
C5_BendScaleIsMinOfFour ==
    BendScaleSet =>
       IsMin(self.scale,
             BendCandidates(
                QFrac(2 * form.nomrad + dims[form.flange][2], 2),
                QFrac(dims[form.flange][2], 2),
                QFrac(2 * form.nomrad - form.casingod, 2),
                QFrac(2 * form.nomrad + form.casingod, 2),
                4 * form.bendangle, BendRdm,
                QOf(page.page_w), QOf(page.page_h)))

\* a bend of 60 degrees was drawn on the large page, where the angular
\* extent with the dimension lines binds the width before the flange circle
\* does
C5_Witness ==
    /\ BendScaleSet
    /\ pc = "drawn"
    /\ form.bendangle = 60
    /\ page.page_w = 476 /\ page.page_h = 600
    /\ QLt(self.scale,
           QDiv(QOf(page.page_w),
                QFrac(2 * form.nomrad + dims[form.flange][2], 2)))

\* C6: for every valid bend and every page of positive width and height,
\* draw returns a positive scale s under which the flange bounding circle
\* fits the page: s * (nomrad + flangeOD / 2) <= page_w and
\* s * (sin(bendAngle) * (nomrad + flangeOD / 2) + flangeOD / 2) <= page_h.
C6_BendScalePositiveAndFits ==
    BendScaleSet =>
       /\ pc = "drawn"
       /\ QLt(QOf(0), ret)
       /\ QLe(QMul(ret, QFrac(2 * form.nomrad + dims[form.flange][2], 2)),
              QOf(page.page_w))
       /\ QLe(QMul(ret,
                   QAdd(QMul(sin(4 * form.bendangle),
                             QFrac(2 * form.nomrad + dims[form.flange][2], 2)),
                        QFrac(dims[form.flange][2], 2))),
              QOf(page.page_h))

\* C7: PipeStraight.set_scale sets scale to the minimum of
\* (page_w - ldm) / flangeOD and (page_h - rdm) / (length + flangeRadius),
\* with ldm three times the padded width of the length label and rdm four
\* times the padded height of the tallest diameter label; hence the scale is
\* at most page_h / (length + flangeRadius) and at most page_w / flangeOD.
C7_StraightScaleIsMinOfTwo ==
    StraightScaleSet =>
       /\ IsMin(self.scale,
                {QDiv(QSub(QOf(page.page_w), StraightLdm),
                      QOf(dims[form.flange][2])),
                 QDiv(QSub(QOf(page.page_h), StraightRdm),
                      QFrac(2 * form.length + dims[form.flange][2], 2))})
       /\ QLe(self.scale,
              QDiv(QOf(page.page_h),
                   QFrac(2 * form.length + dims[form.flange][2], 2)))
       /\ QLe(self.scale, QDiv(QOf(page.page_w), QOf(dims[form.flange][2])))

\* a long straight was drawn on the large page, where its height binds
C7_Witness ==
    /\ StraightScaleSet
    /\ pc = "drawn"
    /\ form.length = 30000
    /\ page.page_w = 476 /\ page.page_h = 600
    /\ QEq(self.scale,
           QDiv(QSub(QOf(page.page_h), StraightRdm),
                QFrac(2 * form.length + dims[form.flange][2], 2)))

\* set_scale has returned: its last call on the canvas is made
ScaleReturned ==
    \E i \in 2..Len(ctx.ops) :
       ctx.ops[i].op = "translate" /\ ctx.ops[i - 1].op = "scale"

\* the origin set_scale moved the canvas to
TranslatedTo ==
    ctx.ops[CHOOSE i \in 2..Len(ctx.ops) :
               /\ ctx.ops[i - 1].op = "scale"
               /\ \A j \in 1..(i - 2) : ctx.ops[j].op # "scale"].args

\* An extent of size bend along one axis of a page of size page_s, with its
\* far edge (right, bottom) at the coordinate far, is centred: the margin
\* behind it equals the margin before it, and neither is negative.
Centred(page_s, bend, far) ==
    /\ QEq(QSub(page_s, far), QSub(far, bend))
    /\ QLe(QOf(0), QSub(page_s, far))
    /\ QLe(QOf(0), QSub(far, bend))

\* C8 for the origin o and the extents e of the bend, on the page divided by
\* the scale
BendCentred(o, e, scale) ==
    /\ Centred(QDiv(QOf(page.page_w), scale),
               QMax(e.rad_w, QAdd(e.ang_w, QDiv(e.dm_w, scale))),
               QAdd(o.x, e.bfr))
    /\ Centred(QDiv(QOf(page.page_h), scale),
               QMax(e.rad_h, QAdd(e.ang_h, QDiv(e.dm_h, scale))),
               QAdd(o.y, e.flr))

\* C8: after PipeBend.set_scale the extent bend_w = max(rad_w, ang_w +
\* dm_w / scale) is centred in the scaled page: the margin right of
\* origin.x + bfr equals the margin left of the extent; likewise the margin
\* below origin.y + flangeRadius equals the margin above the extent
\* bend_h = max(rad_h, ang_h + dm_h / scale); and the margins are >= 0.
C8_BendCentred ==
    (BendScaleSet /\ ScaleReturned) =>
       BendCentred(TranslatedTo, BendExtents(self, BendRdm), self.scale)

\* C9 for the origin o of the straight, on the page divided by the scale;
\* fld and flr are the diameter and the radius of the flange
StraightCentred(o, fld, flr, scale) ==
    /\ Centred(QDiv(QOf(page.page_w), scale),
               QAdd(fld, QDiv(StraightLdm, scale)),
               QAdd(QSub(o.x, flr), QAdd(fld, QDiv(StraightLdm, scale))))
    /\ Centred(QDiv(QOf(page.page_h), scale),
               QAdd(QAdd(QOf(form.length), flr), QDiv(StraightRdm, scale)),
               QAdd(o.y, flr))

\* C9: after PipeStraight.set_scale the extent of width flangeOD +
\* ldm / scale and height length + flangeRadius + rdm / scale is centred in
\* the scaled page: the left margin x_origin - flangeRadius equals the right
\* margin, the top margin equals the bottom margin, both are >= 0, and the
\* axis of the pipe is one flange radius right of the left edge of the
\* extent.
C9_StraightCentred ==
    (StraightScaleSet /\ ScaleReturned) =>
       StraightCentred(TranslatedTo, QOf(dims[form.flange][2]),
                       QFrac(dims[form.flange][2], 2), self.scale)

----------------------------------------------------------------------------
(* Properties of the constructors.                                         *)

\* C10: constructing a Flange, a PipeStraight or a PipeBend with a flange
\* designation that is no key of the catalogue fails at construction with
\* the error of the lookup; no object is produced and no call has been made
\* on any canvas.
C10_UnknownFlangeFails ==
    (/\ form # None
     /\ form.jobtype \in {"flange", "pipebend", "pipestraight"}
     /\ form.flange \notin DOMAIN dims) =>
       /\ pc = "raised"
       /\ err = "KeyError"
       /\ self = None
       /\ ctx.ops = <<>>
       /\ page = None /\ ret = None

\* a bend was asked for with the flange 999PN16
C10_Witness ==
    /\ form # None
    /\ form.jobtype = "pipebend"
    /\ form.flange = "999PN16"
    /\ err = "KeyError"

----------------------------------------------------------------------------
(* Properties of draw_dim_line.                                            *)

\* draw_dim_line was called
DimLineCalled == form # None /\ form.jobtype = "dimline"

\* the calls of the name op in the log of the canvas
CallsOf(op) == {i \in 1..Len(ctx.ops) : ctx.ops[i].op = op}

\* C11: for every pair of endpoints ps, pe with ps.x = pe.x, draw_dim_line
\* raises no division error and resolves the angle of the line to exactly
\* 90 degrees when ps.y < pe.y and to 270 degrees otherwise.  The angle is
\* read off the arrowhead at ps, which is handed the angle unturned when
\* pe.x > ps.x does not hold.
C11_VerticalLineAngle ==
    (DimLineCalled /\ QEq(form.ps.x, form.pe.x)) =>
       /\ pc = "drawn" /\ err = "none"
       /\ \E i \in CallsOf("draw_arrowhead") :
             /\ ctx.ops[i].args[2] = form.ps
             /\ ctx.ops[i].args[1] =
                   Angle(QOf(0), IF QLt(form.ps.y, form.pe.y) THEN 360
                                 ELSE 1080)

\* a vertical dimension line was drawn downwards on the canvas, from ps to
\* a pe with a larger y
C11_Witness ==
    /\ DimLineCalled
    /\ pc = "drawn"
    /\ QEq(form.ps.x, form.pe.x) /\ QLt(form.ps.y, form.pe.y)
    /\ CallsOf("draw_arrowhead") # {}

\* The direction an arrowhead handed the angle a points in, in the
\* orientation of ptoc, as a vector <<x, y>> with y growing upwards:
\* (1, tan) is the direction of atan(tan), turned by a quarter turn for
\* every 90 degrees of a.turn.
ArrowDir(a) ==
    LET k == (a.turn \div 360) % 4
    IN  IF k = 0 THEN <<QOf(1), a.tan>>
        ELSE IF k = 1 THEN <<QNeg(a.tan), QOf(1)>>
        ELSE IF k = 2 THEN <<QOf(-1), QNeg(a.tan)>>
        ELSE <<a.tan, QOf(-1)>>

\* the direction d, with y growing upwards, is that from the point p to the
\* point q of the canvas, where y grows downwards
PointsFromTo(d, p, q) ==
    /\ QEq(QMul(d[1], QSub(q.y, p.y)), QNeg(QMul(d[2], QSub(q.x, p.x))))
    /\ QLt(QOf(0), QSub(QMul(d[1], QSub(q.x, p.x)),
                        QMul(d[2], QSub(q.y, p.y))))

----------------------------------------------------------------------------
(* Properties of DrawnComponent.draw.                                      *)

\* draw has been called on a bend or a straight
PipeDrawn ==
    page # None /\ form.jobtype \in {"pipebend", "pipestraight"}

\* the log of the canvas from the latest call of draw on
Invocation ==
    SubSeq(ctx.ops,
           CHOOSE i \in CallsOf("draw") : \A j \in CallsOf("draw") : j <= i,
           Len(ctx.ops))

\* where the calls of the name op are in the log ops
At(ops, op) == {i \in 1..Len(ops) : ops[i].op = op}

\* In the log ops of one invocation of draw the three hooks are entered
\* once each, in their order, and the canvas is scaled once, between
\* draw_pre_scale and draw_component, by the factor s.
HooksInOrder(ops, s) ==
    /\ \E i \in At(ops, "draw_pre_scale"), j \in At(ops, "set_scale"),
          k \in At(ops, "draw_component"), c \in At(ops, "scale") :
          /\ At(ops, "draw_pre_scale") = {i}
          /\ At(ops, "set_scale") = {j}
          /\ At(ops, "draw_component") = {k}
          /\ At(ops, "scale") = {c}
          /\ i < j /\ j < k
          /\ i < c /\ c < k
          /\ ops[c].args = <<s, s>>

\* C13: every invocation of DrawnComponent.draw calls draw_pre_scale,
\* set_scale and draw_component once each, in this order, for a bend and
\* for a straight; the canvas is scaled exactly once, between
\* draw_pre_scale and draw_component; and draw returns the scale that was
\* applied to the canvas.
C13_HooksOnceInOrder ==
    PipeDrawn =>
       /\ pc = "drawn"
       /\ ret # None
       /\ HooksInOrder(Invocation, ret)

----------------------------------------------------------------------------
(* Properties of repeated draws.                                           *)

\* the style attribute a, times the scale of the latest draw, is its size b
\* of construction
SizeKept(a, b) == QEq(QMul(a, self.scale), b)

\* C14: after any number of draws of one component, the line width, every
\* dash length, and every text size and padding equals its value of
\* construction divided by the scale chosen in the latest draw: times that
\* scale it is the line width 0.5, the dashes 7, 2, 2, 2, the sizes and the
\* paddings of the texts of construction.
C14_StyleOverScale ==
    (PipeDrawn /\ pc = "drawn") =>
       /\ SizeKept(self.drawing_line_width, DrawnComponent.drawing_line_width)
       /\ \A i \in 1..4 :
             SizeKept(self.dash_style[i], DrawnComponent.dash_style[i])
       /\ \A k \in {"dims", "info", "notice"} :
             /\ SizeKept(self.text[k].size, DrawnComponent.text[k].size)
             /\ SizeKept(self.text[k].padding,
                         DrawnComponent.text[k].padding)

\* C15: the points pc_pts of a component (every list under "out", "in"
\* and "ctr", and every point of them) are left as they are by every call of
\* draw, with its hooks draw_pre_scale, set_scale and draw_component: their
\* number, order and coordinates stay those of the end of construction.
C15_PointsUnchanged ==
    [][(self # None /\ form.jobtype \in {"pipebend", "pipestraight"})
          => self'.pc_pts = self.pc_pts]_vars

\* a bend was drawn twice
C15_Witness ==
    /\ PipeDrawn
    /\ form.jobtype = "pipebend"
    /\ pc = "drawn"
    /\ DrawCount(ctx.ops) = 2
    /\ Len(self.pc_pts.ctr) = self.num_segments + 2

----------------------------------------------------------------------------
(* Properties of the flange catalogue.                                     *)

\* hole diameter < raised-face diameter < bolt-circle diameter < flange
\* diameter, and an even number of bolts
WellFormedEntry(d) ==
    /\ d[1] < d[7]
    /\ d[7] < d[4]
    /\ d[4] < d[2]
    /\ d[6] % 2 = 0

\* C16: every entry of Flange.dims has hole diameter < raised-face diameter
\* < bolt-circle diameter < flange diameter and an even number of bolts, and
\* the catalogue is the same in every state the program reaches: no
\* constructor and no draw writes to it.
C16_CatalogueWellFormed ==
    /\ \A name \in DOMAIN Flange_dims : WellFormedEntry(Flange_dims[name])
    /\ Flange_dims = dims

\* a pipe that read the catalogue in its constructor was drawn twice
C16_Witness ==
    /\ PipeDrawn
    /\ DrawCount(ctx.ops) = 2
    /\ self.flange.bolt_circle_diameter = Flange_dims[form.flange][4]
    /\ self.flange.raised_face_diameter < self.flange.bolt_circle_diameter

\* the designations main() accepts
Accepted == {flanges[i] : i \in 1..Len(flanges)}

\* C17: the flange designations that the validation of main() accepts are
\* the keys of the catalogue, which are 100PN16, 125PN16, 150PN16, 200PN16,
\* 250PN16, 300PN16 and 400PN16; so a job whose flange passes the
\* validation never fails the lookup of the flange in a constructor.
C17_AcceptedAreCatalogued ==
    /\ Accepted = DOMAIN Flange_dims
    /\ Accepted = {"100PN16", "125PN16", "150PN16", "200PN16",
                   "250PN16", "300PN16", "400PN16"}
    /\ (/\ form # None
        /\ validate_form_option(form, "flange", flanges).err = "none") =>
          /\ err # "KeyError"
          /\ self # None
          /\ IF form.jobtype = "flange" THEN self.name = form.flange
             ELSE self.flange.name = form.flange

\* a straight pipe was constructed with a flange that passes the validation
C17_Witness ==
    /\ form # None
    /\ form.jobtype = "pipestraight"
    /\ validate_form_option(form, "flange", flanges) = Returned("150PN16")
    /\ pc = "constructed"
    /\ self.flange.name = "150PN16"

----------------------------------------------------------------------------
(* Properties of Flange.draw_profile.                                      *)

\* draw_profile was called on a flange: only the profile has arcs
ProfileCalled ==
    /\ form # None
    /\ form.jobtype = "flange"
    /\ CallsOf("arc") # {}

\* a full circle, as draw_profile draws it for a bolt hole
IsHole(o) == o.op = "arc" /\ o.args[4] = 0 /\ o.args[5] = 2 * pi

\* the angle -pi / (2 * nbs) * (1 + 2 * i), in quarter degrees
HoleAngle(nbs, i) == 0 - ((pi * (1 + 2 * i)) \div (2 * nbs))

\* the circle o is centred at the point p
CentredAt(o, p) == QEq(o.args[1], p.x) /\ QEq(o.args[2], p.y)

\* the holes are those of the angles HoleAngle(nbs, 0..nbs-1), in this
\* order, in the half y > 0 of the canvas, which the flange arcs span
HolesAtAngles(holes, nbs, bcr) ==
    /\ Len(holes) = nbs
    /\ \A i \in 0..(nbs - 1) :
          /\ (pi * (1 + 2 * i)) % (2 * nbs) = 0
          /\ CentredAt(holes[i + 1], ptoc(HoleAngle(nbs, i), bcr, Origin))
          /\ QLt(QOf(0), holes[i + 1].args[2])

\* the angles are distinct, inside the lower half turn, pi / nbs apart and
\* symmetric about -pi / 2
AnglesSpread(nbs) ==
    /\ \A i, j \in 0..(nbs - 1) :
          i # j => HoleAngle(nbs, i) # HoleAngle(nbs, j)
    /\ \A i \in 0..(nbs - 1) :
          0 - pi < HoleAngle(nbs, i) /\ HoleAngle(nbs, i) < 0
    /\ pi % nbs = 0
    /\ \A i \in 0..(nbs - 2) :
          HoleAngle(nbs, i) - HoleAngle(nbs, i + 1) = pi \div nbs
    /\ {HoleAngle(nbs, i) : i \in 0..(nbs - 1)}
         = {(0 - pi) - HoleAngle(nbs, i) : i \in 0..(nbs - 1)}

\* C18: for every flange of the catalogue, draw_profile draws num_bolts / 2
\* bolt holes, the hole i at the angle -pi / (2 * nbs) * (1 + 2 * i) on the
\* bolt circle, where nbs = num_bolts / 2 and i runs from 0 to nbs - 1; the
\* angles are pairwise distinct, lie strictly between -pi and 0, follow one
\* another at a distance of pi / nbs, and are symmetric about -pi / 2.
C18_BoltHoles ==
    ProfileCalled =>
       /\ self.num_bolts = Flange_dims[form.flange][6]
       /\ HolesAtAngles(SelectSeq(ctx.ops, IsHole), self.num_bolts \div 2,
                        QFrac(self.bolt_circle_diameter, 2))
       /\ AnglesSpread(self.num_bolts \div 2)

\* the profile of a flange with sixteen bolts was drawn: eight holes
C18_Witness ==
    /\ ProfileCalled
    /\ form.flange = "400PN16"
    /\ pc = "drawn"
    /\ Len(SelectSeq(ctx.ops, IsHole)) = 8

----------------------------------------------------------------------------
(* Properties of Pipe.draw_component and of draw_pipe_comp.  The canvas    *)
(* keeps one current path: fill and stroke use it up, fill_preserve keeps  *)
(* it, and save and restore leave it alone.                                *)

\* the calls that Pipe.draw_component makes for the layers, in the call of
\* draw_component logged at d: those up to draw_bend_profile
LayerOps(d) ==
    SubSeq(ctx.ops, d + 1,
           (CHOOSE e \in CallsOf("draw_bend_profile") :
               /\ e > d
               /\ \A f \in CallsOf("draw_bend_profile") : f > d => e <= f)
           - 1)

Fills(L) == {i \in 1..Len(L) : L[i].op \in {"fill", "fill_preserve"}}

Strokes(L) == {i \in 1..Len(L) : L[i].op = "stroke"}

\* where the path that the call i of L uses begins: after the latest call
\* before i that used the path up
PathStart(L, i) ==
    CHOOSE k \in 1..i :
        /\ \A j \in k..(i - 1) : L[j].op \notin {"fill", "stroke"}
        /\ k > 1 => L[k - 1].op \in {"fill", "stroke"}

\* the path that the call i uses was closed
Closed(L, i) == \E k \in PathStart(L, i)..(i - 1) : L[k].op = "close_path"

PathCalls == {"lines", "move_to", "line_to", "arc", "arc_negative"}

\* the layer whose points or radii the path of the call i was made of
PathLayer(L, i) ==
    L[CHOOSE k \in PathStart(L, i)..(i - 1) : L[k].op \in PathCalls].args[1]

\* the layer k is filled at f and has its two side edges, and nothing else,
\* stroked between f and g
EdgesOnly(L, k, f, g) ==
    /\ PathLayer(L, f) = k
    /\ Cardinality({s \in Strokes(L) : f < s /\ s < g}) = 2
    /\ \A s \in Strokes(L) :
          (f < s /\ s < g) => (~Closed(L, s) /\ PathLayer(L, s) = k)

\* the order of the calls for the layers
FillsThenOutline(L) ==
    /\ Cardinality(Fills(L)) = 4
    /\ \A i \in Fills(L) : L[i].op = "fill"
    /\ \E a, b, c, e \in Fills(L), z \in Strokes(L) :
          /\ a < b /\ b < c /\ c < e /\ e < z
          /\ PathLayer(L, a) = "co"
          /\ \A s \in Strokes(L) : s > a
          /\ {s \in Strokes(L) : a < s /\ s < b} = {}
          /\ EdgesOnly(L, "ci", b, c)
          /\ EdgesOnly(L, "lo", c, e)
          /\ EdgesOnly(L, "li", e, z)
          /\ Closed(L, z) /\ PathLayer(L, z) = "co"
          /\ \A s \in Strokes(L) : s <= z
          /\ \A s \in Strokes(L) : Closed(L, s) => s = z

\* C19: Pipe.draw_component fills co without an outline, then fills ci, lo
\* and li, each with its two side edges stroked and nothing else, and
\* strokes the outline of co last; the closed outline of a layer is stroked
\* for co only, once, after all four fills.
C19_FillsBeforeOutline ==
    (form # None /\ form.jobtype \in {"pipebend", "pipestraight"}) =>
       \A d \in CallsOf("draw_component") : FillsThenOutline(LayerOps(d))

\* a bend with a one-piece casing was drawn twice, with curved casing layers
\* and segmented lining layers
C19_Witness ==
    /\ PipeDrawn
    /\ form.jobtype = "pipebend"
    /\ form.casing = "onepiece"
    /\ Cardinality(CallsOf("draw_component")) = 2
    /\ Cardinality(CallsOf("fill")) = 8

\* the names of the calls that make the paths of the layer k in L
PathCallsOf(L, k) ==
    {L[i].op : i \in {j \in 1..Len(L) :
                         L[j].op \in PathCalls /\ L[j].args[1] = k}}

\* the layer k is drawn from its points, as Pipe.draw_pipe_comp draws it
Segmented(L, k) == PathCallsOf(L, k) = {"lines"}

\* the layer k is drawn with the arcs of draw_curved_bend
CurvedBend(L, k) ==
    /\ "arc" \in PathCallsOf(L, k)
    /\ PathCallsOf(L, k) \subseteq {"move_to", "line_to", "arc",
                                     "arc_negative"}

\* C20: PipeBend.draw_pipe_comp hands a layer to draw_curved_bend exactly
\* when casing_type is "onepiece" and the layer is co or ci; lo and li are
\* drawn from the segmented polygon whatever the casing type, and with the
\* casing type "segmented" every layer is.
C20_CurvedCasingOnly ==
    (form # None /\ form.jobtype = "pipebend") =>
       \A d \in CallsOf("draw_component") :
          /\ \A k \in {"lo", "li"} : Segmented(LayerOps(d), k)
          /\ \A k \in {"co", "ci"} :
                IF self.casing_type = "onepiece"
                THEN CurvedBend(LayerOps(d), k)
                ELSE Segmented(LayerOps(d), k)

\* a bend with a one-piece casing was drawn
C20_Witness ==
    /\ form # None /\ form.jobtype = "pipebend"
    /\ self # None /\ self.casing_type = "onepiece"
    /\ pc = "drawn"
    /\ \E d \in CallsOf("draw_component") :
          /\ CurvedBend(LayerOps(d), "ci")
          /\ Segmented(LayerOps(d), "lo")

----------------------------------------------------------------------------
(* Properties of the drawing helpers of a bend.                            *)

\* the first call of the name op after the call d
NextCall(d, op) ==
    CHOOSE e \in CallsOf(op) :
        e > d /\ \A f \in CallsOf(op) : f > d => e <= f

\* the moves and lines of the call of draw_ribs logged at d: those between
\* its save and its stroke
RibCalls(d) == SubSeq(ctx.ops, d + 2, NextCall(d, "stroke") - 1)

PointOf(o) == Point(o.args[1], o.args[2])

\* the rib i of R runs from the vertex of the outer boundary to the vertex
\* of the inner boundary at the angle segmentAngle * (i + 0.5)
RibAtAngle(R, i, s_ang, rad_out, rad_in) ==
    /\ R[2 * i + 1].op = "move_to"
    /\ R[2 * i + 2].op = "line_to"
    /\ AtPolar(PointOf(R[2 * i + 1]), QDiv(rad_out, cos(s_ang \div 2)),
               (s_ang * (2 * i + 1)) \div 2)
    /\ AtPolar(PointOf(R[2 * i + 2]), QDiv(rad_in, cos(s_ang \div 2)),
               (s_ang * (2 * i + 1)) \div 2)

\* no call of R is at an end of the boundaries pts_out and pts_in
OffTheEnds(R, pts_out, pts_in) ==
    \A j \in 1..Len(R) :
        PointOf(R[j]) \notin {pts_out[1], pts_out[Len(pts_out)],
                              pts_in[1], pts_in[Len(pts_in)]}

\* C21: for a bend of n segments draw_ribs draws n ribs of the lining, one
\* for each internal vertex; the rib i joins the vertex of the outer
\* boundary and the vertex of the inner boundary that lie at the angle
\* segmentAngle * (i + 0.5), and no rib touches a vertex at the angle 0 or
\* at the bend angle.
C21_RibsAtInternalVertices ==
    (form # None /\ form.jobtype = "pipebend") =>
       \A d \in CallsOf("draw_ribs") :
          /\ ctx.ops[d].args = <<"li">>
          /\ Len(RibCalls(d)) = 2 * self.num_segments
          /\ \A i \in 0..(self.num_segments - 1) :
                RibAtAngle(RibCalls(d), i, self.segment_angle.q,
                           self.radii.outer.li, self.radii.inner.li)
          /\ OffTheEnds(RibCalls(d), self.pc_pts.out.li, self.pc_pts["in"].li)

----------------------------------------------------------------------------
(* Properties of main().                                                   *)

\* main() was run on a form
MainRun == form # None /\ form.jobtype = "main"

\* main() came to the construction of the job
ReachedConstruction == MainRun /\ pc \in {"validated", "constructed"}

\* casingOD > casingID > liningOD > liningID > 0, and a positive nominal
\* radius or length
Nested(f) ==
    /\ f.casingod > f.casingid
    /\ f.casingid > f.liningod
    /\ f.liningod > f.liningid
    /\ f.liningid > 0
    /\ IF f.jobtype = "pipebend" THEN f.nomrad > 0 ELSE f.length > 0

\* C22: every job for which main() comes to the construction of the model
\* has casingOD > casingID > liningOD > liningID > 0 and a positive length
\* (straight) or nominal radius (bend); an input without this ends in
\* html_fail, and no PipeStraight or PipeBend is constructed.
C22_NestedOrRejected ==
    MainRun =>
       /\ ReachedConstruction => Nested(form.fields)
       /\ ~Nested(form.fields) =>
             (pc = "raised" /\ err = "SystemExit" /\ self = None)

\* a straight was constructed by main(), and a form whose length is not
\* positive is among the forms
C22_Witness ==
    /\ MainRun
    /\ form.fields.jobtype = "pipestraight"
    /\ pc = "constructed"
    /\ self.kind = "straight"
    /\ Nested(form.fields)
    /\ \E f \in MainForms : f.jobtype = "pipestraight" /\ ~Nested(f)

\* C23: every bend for which main() comes to the construction of PipeBend
\* has a bend angle in (0, 90] and a segment angle that divides the bend
\* angle evenly, so that bendAngle / segmentAngle is a positive integer;
\* and the check of the division raises nothing for a segment angle > 0.
C23_SegmentAngleDivides ==
    (MainRun /\ form.fields.jobtype = "pipebend") =>
       /\ ReachedConstruction =>
             /\ 0 < form.fields.bendangle /\ form.fields.bendangle <= 90
             /\ form.fields.segangle > 0
             /\ (form.fields.bendangle * 1000) % form.fields.segangle = 0
       /\ form.fields.segangle > 0 => err # "ZeroDivisionError"

\* C24: every bend that passes the checks of main() is constructed with a
\* positive radius for every boundary of a layer: nomrad - casingOD / 2 > 0,
\* hence the inner radii of co, ci, lo and li are positive; and the segment
\* lengths cex, cin, lex, lin and mean are positive.
C24_PositiveRadii ==
    (MainRun /\ form.fields.jobtype = "pipebend" /\ pc = "constructed") =>
       /\ \A k \in {"co", "ci", "lo", "li"} :
             QLt(QOf(0), self.radii.inner[k])
       /\ \A k \in {"cex", "cin", "lex", "lin", "mean"} :
             QLt(QOf(0), self.segdims[k])

----------------------------------------------------------------------------
(* Properties of draw as a whole.                                          *)

\* the latest call of draw went through draw_pre_scale, set_scale and
\* draw_component and came to its end
PhasesCompleted(ops) ==
    /\ At(ops, "draw_pre_scale") # {}
    /\ At(ops, "translate") # {}
    /\ At(ops, "draw_component") # {}
    /\ ops[Len(ops)].op = "restore"

\* C25: for every PipeStraight and PipeBend that was constructed and every
\* page of positive width and height, draw runs its three phases to their
\* end and returns a scale; it raises nothing, and in particular no
\* division by zero in the scale or the origin.
C25_DrawNeverRaises ==
    PipeDrawn =>
       /\ err = "none"
       /\ pc = "drawn"
       /\ PhasesCompleted(Invocation)
       /\ ret # None /\ ret = self.scale

----------------------------------------------------------------------------
(* Properties of the state of the canvas.  The canvas keeps a stack of     *)
(* graphics states: save pushes a copy of the top one, restore pops it,    *)
(* and the calls that set the transform, the line width, the colour or the *)
(* dash style change the top one.  A setting is known by the place in the  *)
(* log of the call that made it, 0 for what draw was entered with.         *)

GStateAtEntry == [ctm |-> <<>>, line_width |-> 0, source |-> 0, dash |-> 0]

\* the graphics state g once the i-th call of the log, of the name op, is
\* made
GStateSet(g, op, i) ==
    IF op \in {"scale", "translate", "rotate"}
    THEN [g EXCEPT !.ctm = Append(@, i)]
    ELSE IF op = "set_line_width" THEN [g EXCEPT !.line_width = i]
    ELSE IF op = "set_source_rgb" THEN [g EXCEPT !.source = i]
    ELSE IF op = "set_dash" THEN [g EXCEPT !.dash = i]
    ELSE g

\* the canvas c once the i-th call of the log is made; low says that a
\* restore found nothing that was saved since the entry
CanvasAfter(c, op, i) ==
    IF op = "save" THEN [c EXCEPT !.stack = <<c.stack[1]>> \o @]
    ELSE IF op = "restore"
    THEN (IF Len(c.stack) > 1 THEN [c EXCEPT !.stack = Tail(@)]
          ELSE [c EXCEPT !.low = TRUE])
    ELSE [c EXCEPT !.stack[1] = GStateSet(@, op, i)]

\* the canvas c once the calls lo to hi of the log are made, the first half
\* of them and then the second; c is looked at before the calls are, and its
\* stack is never empty
RECURSIVE Replay(_, _, _, _)
Replay(ops, lo, hi, c) ==
    IF c.stack = <<>> \/ lo > hi THEN c
    ELSE IF lo = hi THEN CanvasAfter(c, ops[lo].op, lo)
    ELSE Replay(ops, (lo + hi) \div 2 + 1, hi,
                Replay(ops, lo, (lo + hi) \div 2, c))

\* the canvas after the calls of ops, entered with nothing saved
Replayed(ops) ==
    Replay(ops, 1, Len(ops), [stack |-> <<GStateAtEntry>>, low |-> FALSE])

\* every save is restored, no restore goes below the entry, and the
\* graphics state is the one of the entry
Balanced(c) ==
    /\ ~c.low
    /\ Len(c.stack) = 1
    /\ c.stack[1] = GStateAtEntry

\* C27: draw saves and restores in step.  When draw has returned, every
\* save made during the call, by draw or by a helper it called, was
\* restored exactly once, no restore took the depth of the stack below its
\* value on entry, and the transform, the line width, the colour and the
\* dash style of the canvas are those of the entry.
C27_SavesRestored ==
    (PipeDrawn /\ pc = "drawn") => Balanced(Replayed(Invocation))

\* a bend is drawn with the dimension lines of its segments: saves are
\* nested four deep (draw, draw_seg_dims, draw_dim_line, draw_arrowhead),
\* and the scale and the dash style were set on the way
C27_Witness ==
    /\ PipeDrawn /\ pc = "drawn"
    /\ form.jobtype = "pipebend"
    /\ self.num_segments >= 3
    /\ \E i \in CallsOf("draw_seg_dims") :
          /\ ctx.ops[i + 1].op = "save"
          /\ ctx.ops[i + 7].op = "save"
          /\ ctx.ops[i + 11].op = "draw_arrowhead"
          /\ ctx.ops[i + 12].op = "save"
    /\ CallsOf("set_dash") # {}
    /\ CallsOf("scale") # {}

----------------------------------------------------------------------------
(* Properties of the dimension lines of a bend.                            *)

SamePoint(a, b) == QEq(a.x, b.x) /\ QEq(a.y, b.y)

\* the line from p to e runs in the direction of the angle theta (quarter
\* degrees, the y axis pointing down): e - p is a positive multiple of
\* (cos(theta), -sin(theta))
Along(p, e, theta) ==
    /\ QIsZero(QAdd(QMul(QSub(e.x, p.x), sin(theta)),
                    QMul(QSub(e.y, p.y), cos(theta))))
    /\ QLt(QOf(0), QSub(QMul(QSub(e.x, p.x), cos(theta)),
                        QMul(QSub(e.y, p.y), sin(theta))))

\* where, after the call d in the log ops, two extension lines are drawn
\* and stroked
ExtensionsAfter(ops, d) ==
    {j \in (d + 1)..(Len(ops) - 4) :
        /\ ops[j].op = "move_to" /\ ops[j + 1].op = "line_to"
        /\ ops[j + 2].op = "move_to" /\ ops[j + 3].op = "line_to"
        /\ ops[j + 4].op = "stroke"}

\* the two extension lines at j start at the vertices k and k + 1 (counted
\* from 0) of pts and run in the direction theta
ExtendedFrom(ops, j, pts, k, theta) ==
    /\ SamePoint(PointOf(ops[j]), pts[k + 1])
    /\ SamePoint(PointOf(ops[j + 2]), pts[k + 2])
    /\ Along(PointOf(ops[j]), PointOf(ops[j + 1]), theta)
    /\ Along(PointOf(ops[j + 2]), PointOf(ops[j + 3]), theta)

\* The internal vertex k of a boundary (k in 1..n) is at the angle
\* s_ang * (k - 1/2): the segment between the vertices k and k + 1 has its
\* middle at s_ang * k.  The vertex k of an "in" list is the vertex
\* n + 1 - k of the boundary, so the segment between the vertices k and
\* k + 1 of the list has its middle at s_ang * (n - k).
ExtradosAt(ops, j, n, s_ang) ==
    \E comp \in {"co", "lo"}, k \in 1..(n - 1) :
       ExtendedFrom(ops, j, self.pc_pts.out[comp], k, s_ang * k)

IntradosAt(ops, j, n, s_ang) ==
    \E comp \in {"co", "lo"}, k \in 1..(n - 1) :
       ExtendedFrom(ops, j, self.pc_pts["in"][comp], k,
                    s_ang * (n - k) + pi)

\* what draw_seg_dims, called at d in the log ops, has drawn
SegDimsDrawn(ops, d) ==
    IF self.num_segments < 3
    THEN ops[d + 1].op = "save" /\ ops[d + 2].op = "restore"
    ELSE /\ Cardinality(ExtensionsAfter(ops, d))
              = IF self.casing_type = "onepiece" THEN 2 ELSE 4
         /\ \A j \in ExtensionsAfter(ops, d) :
               \/ ExtradosAt(ops, j, self.num_segments, self.segment_angle.q)
               \/ IntradosAt(ops, j, self.num_segments, self.segment_angle.q)
         /\ \E j \in ExtensionsAfter(ops, d) :
               ExtradosAt(ops, j, self.num_segments, self.segment_angle.q)
         /\ \E j \in ExtensionsAfter(ops, d) :
               IntradosAt(ops, j, self.num_segments, self.segment_angle.q)

NomRadLine(ops, d) ==
    CHOOSE j \in (d + 1)..(Len(ops) - 3) :
       /\ ops[j].op = "move_to" /\ ops[j + 1].op = "line_to"
       /\ ops[j + 2].op = "stroke" /\ ops[j + 3].op = "draw_arrowhead"
       /\ \A k \in (d + 1)..(j - 1) :
             ~(ops[k].op = "move_to" /\ ops[k + 1].op = "line_to"
                  /\ ops[k + 2].op = "stroke")

\* the point pt, at the nominal radius, is at a whole multiple of the
\* segment angle within the bend, which is half the bend angle for an even
\* count and half a segment angle more for an odd one, and at the angle of
\* no internal vertex
AtSegmentMiddle(pt, n, s_ang, b_arc) ==
    /\ \E k \in 0..n :
          s_ang * k <= b_arc /\ AtPolar(pt, self.radii.nom, s_ang * k)
    /\ AtPolar(pt, self.radii.nom,
               IF n % 2 = 0 THEN b_arc \div 2
               ELSE b_arc \div 2 + s_ang \div 2)
    /\ \A i \in 0..(n - 1) :
          ~AtPolar(pt, self.radii.nom, (s_ang * (2 * i + 1)) \div 2)

\* C29: the dimension line of the nominal radius ends between two vertices.
\* For a bend of one segment or more, the line draw_arc_dims draws to the
\* nominal radius is at an angle that is a whole multiple of the segment
\* angle within [0, bend angle]: half the bend angle for an even count of
\* segments, half the bend angle plus half a segment angle for an odd one;
\* it is never at the angle segmentAngle * (i + 0.5) of an internal vertex.
C29_NomRadLineAtSegmentMiddle ==
    (PipeDrawn /\ pc = "drawn" /\ form.jobtype = "pipebend"
       /\ self.num_segments >= 1) =>
       \A d \in At(Invocation, "draw_arc_dims") :
          AtSegmentMiddle(PointOf(Invocation[NomRadLine(Invocation, d) + 1]),
                          self.num_segments, self.segment_angle.q,
                          self.bend_arc.q)

----------------------------------------------------------------------------
(* Properties of the order of the point lists.  A station of a bend is the *)
(* line through the centre of the bend at an angle; a station of a         *)
(* straight is a height y.                                                 *)

\* the station of the j-th point (from 1) of a list of L points
StationAngle(j, L) ==
    IF j = 1 THEN 0
    ELSE IF j = L THEN self.bend_arc.q
    ELSE (self.segment_angle.q * (2 * (j - 1) - 1)) \div 2

\* the point p is on the line through the centre at the angle theta
OnStation(p, theta) ==
    QIsZero(QAdd(QMul(p.x, sin(theta)), QMul(p.y, cos(theta))))

\* the point p is at the j-th station of a list of L points
AtStation(p, j, L) ==
    IF self.kind = "bend" THEN OnStation(p, StationAngle(j, L))
    ELSE QEq(p.y, IF j = 1 THEN QOf(0) ELSE QOf(0 - self.length))

\* the "in" list of the layer k runs against its "out" list
RunsAgainst(k) ==
    /\ Len(self.pc_pts["in"][k]) = Len(self.pc_pts.out[k])
    /\ \A i \in 1..Len(self.pc_pts.out[k]) :
          /\ AtStation(self.pc_pts.out[k][i], i, Len(self.pc_pts.out[k]))
          /\ AtStation(self.pc_pts["in"][k][Len(self.pc_pts.out[k]) + 1 - i],
                       i, Len(self.pc_pts.out[k]))

\* where draw_rad_dims, called at d in the log ops, starts its extension
\* lines: before the flanges are drawn
RadDimStarts(ops, d) ==
    {j \in ExtensionsAfter(ops, d) :
        \A f \in At(ops, "draw_flanges") : f > d => j < f}

\* every pair of extension lines of draw_rad_dims starts at two points of
\* the far end
FromFarEnd(ops) ==
    \A d \in At(ops, "draw_rad_dims") :
       /\ Cardinality(RadDimStarts(ops, d)) = 4
       /\ \A j \in RadDimStarts(ops, d) :
             /\ AtStation(PointOf(ops[j]), 2, 2)
             /\ AtStation(PointOf(ops[j + 2]), 2, 2)
             /\ \E k \in {"co", "ci", "lo", "li"} :
                   /\ SamePoint(PointOf(ops[j]),
                                self.pc_pts.out[k][Len(self.pc_pts.out[k])])
                   /\ SamePoint(PointOf(ops[j + 2]), self.pc_pts["in"][k][1])

====
